---- MODULE Spec2Model ----
(***************************************************************************)
(* Model of the resolution engine of cw.api.core.di (src/src/container.ts):*)
(* registry, dependency resolver, lifecycle manager, sessions and the      *)
(* parent/child container hierarchy.                                        *)
(*                                                                          *)
(* Modelling conventions                                                    *)
(*  - a class (constructor function) is an identity in Classes; its `name`  *)
(*    property is ClassName[k], a string distinct from the identity;        *)
(*  - `undefined` is None for strings and 0 for ids;                        *)
(*  - Registration objects live in the sequence regs (object identity =     *)
(*    index); the Maps of a container hold indexes into it;                 *)
(*  - instances live in the sequence heap (object identity = index);        *)
(*  - target constructors and dispose hooks are pure: they do not call back *)
(*    into the container.                                                   *)
(***************************************************************************)
EXTENDS Integers, Sequences, FiniteSets, TLC

\* ------------------------------------------------------------------ bounds
MaxContainers == 3
MaxRegs == 3
MaxHeap == 3
MaxSessions == 2
MaxDepth == 2
NumTasks == 2
MaxModuleRegs == 6

\* ------------------------------------------------------------- vocabulary
None == "none"

Classes == {"cA", "cB", "cC"}

ClassName ==
    [k \in Classes |-> CASE k = "cA" -> "A" [] k = "cB" -> "B" [] OTHER -> "C"]

Names == {"A", "B", "C", "x"}

Singleton == "singleton"
Scoped == "scoped"
Transient == "transient"
Lifecycle == {Singleton, Scoped, Transient}

Service == "service"
Controller == "controller"
ServiceType == {Service, Controller}

ScopeNames == {"http", "job"}

Range(s) == {s[i] : i \in DOMAIN s}

\* ----------------------------------------------------------------- tokens
StrTok(n) == [kind |-> "str", name |-> n, cls |-> None, fwd |-> <<>>]
CtorTok(k) == [kind |-> "ctor", name |-> None, cls |-> k, fwd |-> <<>>]
\* forwardRef(() => t): the wrapped token is kept in a one-element sequence
ForwardRef(t) == [kind |-> "fwd", name |-> None, cls |-> None, fwd |-> <<t>>]

isForwardRef(t) == t.kind = "fwd"
isConstructorToken(t) == t.kind = "ctor"

RECURSIVE unwrapToken(_)
unwrapToken(t) ==
    IF isForwardRef(t)
    THEN [token |-> unwrapToken(t.fwd[1]).token, usedForward |-> TRUE]
    ELSE [token |-> t, usedForward |-> FALSE]

describeToken(t) ==
    IF t.kind = "str" THEN t.name
    ELSE IF isConstructorToken(t) THEN ClassName[t.cls]
    ELSE "[forwardRef]"

\* ----------------------------------------------------------------- values
Undefined == [kind |-> "undef", id |-> 0, cont |-> 0, reg |-> 0, sid |-> 0, scope |-> None, plc |-> None]
Inst(i) == [kind |-> "inst", id |-> i, cont |-> 0, reg |-> 0, sid |-> 0, scope |-> None, plc |-> None]
\* the closure returned for a lazy forwardRef dependency (container.ts 795-798, 824-827)
Thunk(c, r, o, plc) ==
    [kind |-> "thunk", id |-> 0, cont |-> c, reg |-> r, sid |-> o.sessionId, scope |-> o.scope, plc |-> plc]

NoOptions == [sessionId |-> 0, scope |-> None]

NoError == [kind |-> "none", path |-> <<>>, consumer |-> None, dep |-> None]
Err(k) == [kind |-> k, path |-> <<>>, consumer |-> None, dep |-> None]
CircularDependency(p) == [kind |-> "CircularDependency", path |-> p, consumer |-> None, dep |-> None]
LifecycleViolation(a, b) == [kind |-> "LifecycleViolation", path |-> <<>>, consumer |-> a, dep |-> b]

\* ------------------------------------------------- dependency declarations
\* One constructor parameter: design:paramtypes entry, @Inject override, @Optional
Param(pt, ov, tok, opt) == [ptype |-> pt, hasOverride |-> ov, inject |-> tok, optional |-> opt]
ByType(k) == Param(k, FALSE, CtorTok(k), FALSE)
ByName(n) == Param("Object", TRUE, StrTok(n), FALSE)
OptByName(n) == Param("Object", TRUE, StrTok(n), TRUE)
LazyRef(k) == Param("Function", TRUE, ForwardRef(CtorTok(k)), FALSE)
\* One injected property: key, token, design:type, optional flag
Prop(key, tok, dt, opt) == [key |-> key, token |-> tok, designType |-> dt, optional |-> opt]

\* what the dispose() method of a class does when it is called: the class
\* has none, it returns undefined, it throws, or it returns a promise that
\* later resolves or rejects
HookKinds == {"none", "sync", "throws", "async", "rejects"}

\* dh: the dispose() method of the class
Meta(ps, pr, dh) == [params |-> ps, props |-> pr, dispose |-> dh]

\* The dependency graphs the classes may have been declared with.
GraphChain ==
    [k \in Classes |->
        CASE k = "cA" -> Meta(<<ByType("cB")>>, <<>>, "none")
          [] k = "cB" -> Meta(<<>>, <<Prop("c", CtorTok("cC"), "cC", FALSE)>>, "none")
          [] OTHER -> Meta(<<>>, <<>>, "sync")]
GraphCtorCycle ==
    [k \in Classes |->
        CASE k = "cA" -> Meta(<<ByType("cC"), ByType("cB")>>, <<>>, "none")
          [] k = "cB" -> Meta(<<ByName("A")>>, <<>>, "none")
          [] OTHER -> Meta(<<>>, <<>>, "none")]
GraphPropCycle ==
    [k \in Classes |->
        CASE k = "cA" -> Meta(<<>>, <<Prop("b", CtorTok("cB"), "cB", FALSE)>>, "none")
          [] k = "cB" -> Meta(<<>>, <<Prop("a", CtorTok("cA"), "cA", FALSE)>>, "none")
          [] OTHER -> Meta(<<>>, <<>>, "none")]
GraphOptional ==
    [k \in Classes |->
        CASE k = "cA" -> Meta(<<OptByName("x"), LazyRef("cB")>>, <<>>, "none")
          [] k = "cB" -> Meta(<<>>, <<Prop("a", StrTok("A"), "cA", TRUE)>>, "none")
          [] OTHER -> Meta(<<Param("Object", FALSE, StrTok("x"), FALSE)>>, <<>>, "none")]

\* A takes an optional C by type and a B; B has an optional property "x"
GraphAbsent ==
    [k \in Classes |->
        CASE k = "cA" -> Meta(<<Param("cC", FALSE, CtorTok("cC"), TRUE), ByType("cB")>>,
                              <<>>, "none")
          [] k = "cB" -> Meta(<<>>, <<Prop("maybe", StrTok("x"), "Object", TRUE)>>, "none")
          [] OTHER -> Meta(<<>>, <<>>, "none")]
\* A and B take each other as a lazy forwardRef; C takes B eagerly and A lazily
GraphLazy ==
    [k \in Classes |->
        CASE k = "cA" -> Meta(<<LazyRef("cB")>>, <<>>, "none")
          [] k = "cB" -> Meta(<<LazyRef("cA")>>, <<>>, "none")
          [] OTHER -> Meta(<<ByType("cB"), LazyRef("cA")>>, <<>>, "none")]

\* A takes B and C and has the injected properties p (a C) and q ("x"); B
\* takes C
GraphOrder ==
    [k \in Classes |->
        CASE k = "cA" -> Meta(<<ByType("cB"), ByType("cC")>>,
                              <<Prop("p", CtorTok("cC"), "cC", FALSE),
                                Prop("q", StrTok("x"), "Object", FALSE)>>, "none")
          [] k = "cB" -> Meta(<<ByType("cC")>>, <<>>, "none")
          [] OTHER -> Meta(<<>>, <<>>, "none")]

\* A has the injected property q ("x"), which is resolved after A has been
\* constructed; B takes A
GraphRetry ==
    [k \in Classes |->
        CASE k = "cA" -> Meta(<<>>, <<Prop("q", StrTok("x"), "Object", FALSE)>>, "none")
          [] k = "cB" -> Meta(<<ByType("cA")>>, <<>>, "none")
          [] OTHER -> Meta(<<>>, <<>>, "none")]

\* B with an injected property C, where B and C have dispose hooks of the
\* given kinds
GraphHooks(kB, kC) ==
    [k \in Classes |->
        CASE k = "cA" -> Meta(<<>>, <<>>, "none")
          [] k = "cB" -> Meta(<<>>, <<Prop("c", CtorTok("cC"), "cC", FALSE)>>, kB)
          [] OTHER -> Meta(<<>>, <<>>, kC)]

\* the pairs of hooks B and C are declared with
HookMenu == {<<"sync", "throws">>, <<"none", "async">>, <<"throws", "async">>,
             <<"async", "rejects">>, <<"rejects", "sync">>}

HookGraphs == {GraphHooks(h[1], h[2]) : h \in HookMenu}

Graphs ==
    {GraphChain, GraphCtorCycle, GraphPropCycle, GraphOptional, GraphAbsent, GraphLazy,
     GraphOrder, GraphRetry}
        \cup HookGraphs

\* ------------------------------------------------------------------ state
VARIABLES
    meta,            \* dependency declarations of the classes (metadata.ts)
    nCont,           \* number of Container objects constructed so far
    parent,          \* Container.parent (0: none)
    inheritance,     \* Container.inheritance
    regs,            \* every Registration object ever created
    byToken,         \* Container.registrationsByToken
    byCtor,          \* Container.registrationsByCtor
    sessions,        \* Container.sessions: session id -> instance cache
    sessionInfos,    \* Container.sessionInfos
    sessionCounter,  \* Container.sessionCounter
    heap,            \* every instance ever constructed
    frames,          \* per logical task: the runInSession extents it is inside
    promises,        \* the pending promises returned by teardown calls
    listeners,       \* Container.listeners: event name -> listener set
    heard,           \* the listener calls made by the last emitting operation
    registeredModules \* Container.registeredModules

vars == <<meta, nCont, parent, inheritance, regs, byToken, byCtor, sessions,
          sessionInfos, sessionCounter, heap, frames, promises, listeners, heard,
          registeredModules>>

Containers == 1..MaxContainers
Tasks == 1..NumTasks

NoRules == [defined |-> FALSE, includeStrings |-> {}, includeCtors |-> {},
            excludeStrings |-> {}, excludeCtors |-> {}]

\* a finite map with one more entry / one entry less
Put(f, k, v) == [x \in (DOMAIN f) \cup {k} |-> IF x = k THEN v ELSE f[x]]
Delete(f, k) == [x \in (DOMAIN f) \ {k} |-> f[x]]
EmptyMap == [x \in {} |-> 0]

\* ------------------------------------------------------------- the registry
generateToken(target, name) == IF name # None THEN name ELSE ClassName[target]

findRegistration(c, token) ==
    LET unwrapped == unwrapToken(token).token
    IN IF unwrapped.kind = "str" THEN
           (IF unwrapped.name \in Names THEN byToken[c][unwrapped.name] ELSE 0)
       ELSE IF isConstructorToken(unwrapped) THEN byCtor[c][unwrapped.cls]
       ELSE 0

\* Intermediate result of normalizeChildOptions: `options` is None or a record of
\* two sets of tokens.
ChildOptions(inc, exc) == [given |-> TRUE, include |-> inc, exclude |-> exc]
NoChildOptions == [given |-> FALSE, include |-> {}, exclude |-> {}]

normalizeChildOptions(options) ==
    LET strings(tokens) == {describeToken(unwrapToken(t).token) : t \in tokens}
        ctors(tokens) == {unwrapToken(t).token.cls :
                            t \in {x \in tokens : isConstructorToken(unwrapToken(x).token)}}
        includeStrings == strings(options.include)
        includeCtors == ctors(options.include)
        excludeStrings == strings(options.exclude)
        excludeCtors == ctors(options.exclude)
    IN IF ~options.given THEN NoRules
       ELSE IF includeStrings = {} /\ includeCtors = {} /\ excludeStrings = {} /\ excludeCtors = {}
       THEN NoRules
       ELSE [defined |-> TRUE, includeStrings |-> includeStrings, includeCtors |-> includeCtors,
             excludeStrings |-> excludeStrings, excludeCtors |-> excludeCtors]

canInheritRegistration(c, registration) ==
    IF parent[c] = 0 THEN FALSE
    ELSE IF ~inheritance[c].defined THEN TRUE
    ELSE LET rules == inheritance[c]
             hasInclude == rules.includeStrings # {} \/ rules.includeCtors # {}
         IN IF registration.token \in rules.excludeStrings THEN FALSE
            ELSE IF registration.target \in rules.excludeCtors THEN FALSE
            ELSE IF ~hasInclude THEN TRUE
            ELSE IF registration.token \in rules.includeStrings THEN TRUE
            ELSE IF registration.target \in rules.includeCtors THEN TRUE
            ELSE FALSE

canInheritToken(c, token) ==
    IF parent[c] = 0 THEN FALSE
    ELSE IF ~inheritance[c].defined THEN TRUE
    ELSE LET rules == inheritance[c]
             unwrapped == unwrapToken(token).token
             description == describeToken(unwrapped)
             hasInclude == rules.includeStrings # {} \/ rules.includeCtors # {}
         IN IF description \in rules.excludeStrings THEN FALSE
            ELSE IF isConstructorToken(unwrapped) /\ unwrapped.cls \in rules.excludeCtors THEN FALSE
            ELSE IF ~hasInclude THEN TRUE
            ELSE IF description \in rules.includeStrings THEN TRUE
            ELSE IF isConstructorToken(unwrapped) /\ unwrapped.cls \in rules.includeCtors THEN TRUE
            ELSE FALSE

\* The values of registrationsByToken in insertion order (a Map iterates in
\* insertion order; Registration objects are numbered in creation order).
RECURSIVE SortedSeq(_)
SortedSeq(S) ==
    IF S = {} THEN <<>>
    ELSE LET m == CHOOSE x \in S : \A y \in S : x <= y
         IN <<m>> \o SortedSeq(S \ {m})

localRegistrations(c) == SortedSeq({byToken[c][n] : n \in Names} \ {0})

\* aggregated.set(registration.token, registration) on a Map kept as a sequence
MapSet(aggregated, r) ==
    IF \E i \in DOMAIN aggregated : regs[aggregated[i]].token = regs[r].token
    THEN [i \in DOMAIN aggregated |->
            IF regs[aggregated[i]].token = regs[r].token THEN r ELSE aggregated[i]]
    ELSE Append(aggregated, r)

RECURSIVE MapSetAll(_, _)
MapSetAll(aggregated, rs) ==
    IF rs = <<>> THEN aggregated
    ELSE MapSetAll(MapSet(aggregated, Head(rs)), Tail(rs))

SelectSeqBy(s, Test(_)) == SelectSeq(s, Test)

RECURSIVE list(_, _)
list(c, type) ==
    LET inherited ==
            IF parent[c] # 0
            THEN SelectSeqBy(list(parent[c], type),
                             LAMBDA r : canInheritRegistration(c, regs[r]))
            ELSE <<>>
        own == SelectSeqBy(localRegistrations(c),
                           LAMBDA r : type = None \/ regs[r].type = type)
    IN MapSetAll(MapSetAll(<<>>, inherited), own)

\* ------------------------------------------------------- ambient sessions
\* sessionStorage.getStore() of container c inside task t: the innermost
\* sessionStorage.run extent of c the task is in (AsyncLocalStorage is one
\* object per Container).
NoStore == [sessionId |-> 0, scope |-> None]

StoreOf(f) == [sessionId |-> f.sessionId, scope |-> f.scope]

\* a store kept in one field of the container instead of the asynchronous
\* context: every task sees the extent entered by the first task that is in one
getStoreShared(t, c) ==
    IF \E u \in Tasks : \E i \in DOMAIN frames[u] : frames[u][i].cont = c
    THEN LET u == CHOOSE u \in Tasks : \E i \in DOMAIN frames[u] : frames[u][i].cont = c
         IN StoreOf(frames[u][CHOOSE i \in DOMAIN frames[u] :
                        /\ frames[u][i].cont = c
                        /\ \A j \in DOMAIN frames[u] : frames[u][j].cont = c => j <= i])
    ELSE NoStore

getStore(t, c) ==
    IF \E i \in DOMAIN frames[t] : frames[t][i].cont = c
    THEN StoreOf(frames[t][CHOOSE i \in DOMAIN frames[t] :
                    /\ frames[t][i].cont = c
                    /\ \A j \in DOMAIN frames[t] : frames[t][j].cont = c => j <= i])
    ELSE NoStore

\* the scope tag of session `sessionId` of container c (None: no info or no tag)
infoScope(c, sessionId) ==
    IF sessionId \in DOMAIN sessionInfos[c] THEN sessionInfos[c][sessionId].scope ELSE None

\* container.ts 895-903: a session id without scope takes the session's own tag
fillScope(c, a) ==
    IF a.sessionId # 0 /\ a.scope = None /\ infoScope(c, a.sessionId) # None
    THEN [a EXCEPT !.scope = infoScope(c, a.sessionId)]
    ELSE a

\* container.ts 877-893: missing fields are taken from the ambient context
fromContext(context, options) ==
    IF context.sessionId # 0
    THEN [sessionId |-> IF options.sessionId = 0 THEN context.sessionId
                        ELSE options.sessionId,
          scope |-> IF context.scope # None /\ options.scope = None
                    THEN context.scope ELSE options.scope]
    ELSE options

normalizeResolveOptions(t, c, options) ==
    fillScope(c, fromContext(getStore(t, c), options))

\* ----------------------------------------------------------- the resolver
\* The part of the program state one resolve call reads and writes is threaded
\* through the recursion as st = [regs, sessions, heap, log]: Registration
\* objects, session caches, instances, and the events emitted so far.
Event(ev, c, reg, path, depth, cached, err) ==
    [event |-> ev, cont |-> c, token |-> reg.token, target |-> reg.target,
     lifecycle |-> reg.lifecycle, path |-> path, depth |-> depth,
     cached |-> cached, error |-> err]

emit(st, e) == [st EXCEPT !.log = Append(@, e)]

Ok(v, cached, st) == [err |-> NoError, val |-> v, cached |-> cached, st |-> st]
Fail(e, st) == [err |-> e, val |-> Undefined, cached |-> FALSE, st |-> st]
Failed(res) == res.err.kind # "none"

\* container.ts 545: path.includes(identifier)
onPath(path, identifier) == identifier \in Range(path)

\* container.ts 550-553
capturesScoped(parentLifecycle, lifecycle) ==
    parentLifecycle = Singleton /\ lifecycle = Scoped

\* a resolveSingleton that never finds its slot filled
neverCached(registration) == FALSE

\* container.ts 624: Boolean(registration.singletonInstance)
singletonCached(registration) == registration.singletonInstance # 0

\* a session cache that never finds an entry
sessionNeverHas(session, token) == FALSE

\* container.ts 656: session.has(registration.token)
sessionHas(session, token) == \E i \in DOMAIN session : session[i].token = token

\* session.get(token) / session.set(token, instance) on a Map kept as the
\* sequence of its entries in insertion order
sessionGet(session, token) ==
    session[CHOOSE i \in DOMAIN session : session[i].token = token].instance
sessionSet(session, token, instance) ==
    IF sessionHas(session, token)
    THEN [i \in DOMAIN session |->
            IF session[i].token = token THEN [token |-> token, instance |-> instance]
            ELSE session[i]]
    ELSE Append(session, [token |-> token, instance |-> instance])

\* isPropertyOptional(ctor, key): the @Optional flag recorded for a property
isPropertyOptional(k, i) == meta[k].props[i].optional

RECURSIVE resolveRegistration(_, _, _, _, _, _, _)
RECURSIVE resolveParams(_, _, _, _, _, _, _, _, _)
RECURSIVE resolveProperties(_, _, _, _, _, _, _, _)

\* a resolveDependency that ignores @Optional
dependencyRequired(t, c, u, registration, paramType, options, path, parentLifecycle, isOptional, st) ==
    IF registration = 0 THEN Fail([Err("NotFound") EXCEPT !.dep = describeToken(u.token)], st)
    ELSE resolveRegistration(t, c, registration, options, path, parentLifecycle, st)

\* container.ts 815-829 once the token is unwrapped and looked up
dependencyOf(t, c, u, registration, paramType, options, path, parentLifecycle, isOptional, st) ==
    IF registration = 0 THEN
        (IF isOptional THEN Ok(Undefined, FALSE, st)
         ELSE Fail([Err("NotFound") EXCEPT !.dep = describeToken(u.token)], st))
    ELSE IF u.usedForward /\ paramType = "Function" THEN
        Ok(Thunk(c, registration, normalizeResolveOptions(t, c, options), parentLifecycle),
           FALSE, st)
    ELSE resolveRegistration(t, c, registration, options, path, parentLifecycle, st)

resolveDependency(t, c, rawToken, paramType, options, path, parentLifecycle, isOptional, st) ==
    dependencyOf(t, c, unwrapToken(rawToken), findRegistration(c, rawToken), paramType,
                 options, path, parentLifecycle, isOptional, st)

\* container.ts 786-800 once the token is unwrapped and looked up
propertyOf(t, c, u, registration, designType, options, path, parentLifecycle, ownerName, isOptional, st) ==
    IF registration = 0 THEN
        (IF isOptional THEN Ok(Undefined, FALSE, st)
         ELSE Fail([Err("NotFound") EXCEPT !.consumer = ownerName], st))
    ELSE IF u.usedForward /\ designType = "Function" THEN
        Ok(Thunk(c, registration, normalizeResolveOptions(t, c, options), parentLifecycle),
           FALSE, st)
    ELSE resolveRegistration(t, c, registration, options, path, parentLifecycle, st)

resolvePropertyDependency(t, c, token, designType, options, path, parentLifecycle, ownerName, isOptional, st) ==
    propertyOf(t, c, unwrapToken(token), findRegistration(c, token), designType, options,
               path, parentLifecycle, ownerName, isOptional, st)

\* container.ts 693-700: no @Inject override and no usable design type
unresolvable(p) == ~p.hasOverride /\ p.ptype \in {None, "Object", "Function"}

\* container.ts 709
rawTokenOf(p) == IF p.hasOverride THEN p.inject ELSE CtorTok(p.ptype)

\* the map callback of instantiate has produced d for parameter i: a failure
\* aborts the map, a value is collected and the map moves on
nextParam(t, c, r, i, args, options, path, parentLifecycle, d) ==
    IF Failed(d) THEN [err |-> d.err, args |-> args, st |-> d.st]
    ELSE resolveParams(t, c, r, i + 1, Append(args, d.val), options, path,
                       parentLifecycle, d.st)

\* paramTypes.map(...) of instantiate (container.ts 692-720), from index i on;
\* args are the arguments produced so far
resolveParams(t, c, r, i, args, options, path, parentLifecycle, st) ==
    IF i > Len(meta[st.regs[r].target].params) THEN [err |-> NoError, args |-> args, st |-> st]
    ELSE IF unresolvable(meta[st.regs[r].target].params[i]) THEN
        (IF meta[st.regs[r].target].params[i].optional
         THEN resolveParams(t, c, r, i + 1, Append(args, Undefined), options, path,
                            parentLifecycle, st)
         ELSE [err |-> [Err("UnresolvableParameter") EXCEPT !.consumer = st.regs[r].token],
               args |-> args, st |-> st])
    ELSE nextParam(t, c, r, i, args, options, path, parentLifecycle,
            resolveDependency(t, c, rawTokenOf(meta[st.regs[r].target].params[i]),
                              meta[st.regs[r].target].params[i].ptype, options, path,
                              parentLifecycle, meta[st.regs[r].target].params[i].optional, st))

\* container.ts 767: instance[key] = value, then the next property
assignProperty(t, c, id, i, options, path, parentLifecycle, value) ==
    IF Failed(value) THEN value
    ELSE resolveProperties(t, c, id, i + 1, options, path, parentLifecycle,
            [value.st EXCEPT !.heap[id].props = Append(@, value.val)])

\* the loop of instantiateWithProperties (container.ts 754-768) over the
\* property injections of the constructor of instance `id`, from entry i on
resolveProperties(t, c, id, i, options, path, parentLifecycle, st) ==
    IF i > Len(meta[st.heap[id].cls].props) THEN Ok(Inst(id), FALSE, st)
    ELSE assignProperty(t, c, id, i, options, path, parentLifecycle,
            resolvePropertyDependency(t, c, meta[st.heap[id].cls].props[i].token,
                meta[st.heap[id].cls].props[i].designType, options, path, parentLifecycle,
                ClassName[st.heap[id].cls], isPropertyOptional(st.heap[id].cls, i), st))

instantiateWithProperties(t, c, id, options, path, parentLifecycle, st) ==
    resolveProperties(t, c, id, 1, options, path, parentLifecycle, st)

\* new registration.target(...args): the object comes into existence
construct(c, r, args, path, st) ==
    [st EXCEPT !.heap = Append(@, [cls |-> st.regs[r].target, reg |-> r, args |-> args,
                                   props |-> <<>>, disposed |-> 0]),
               !.log = Append(@, Event("construct", c, st.regs[r], path, Len(path) - 1,
                                       FALSE, NoError))]

\* container.ts 727-735: the instantiate event, then the hydrated instance
announce(c, r, path, hydrated) ==
    IF Failed(hydrated) THEN hydrated
    ELSE Ok(hydrated.val, FALSE,
            emit(hydrated.st, Event("instantiate", c, hydrated.st.regs[r], path,
                                    Len(path) - 1, FALSE, NoError)))

\* an instantiate that announces the instance before it injects the properties
constructEarly(t, c, r, options, path, parentLifecycle, a) ==
    IF a.err.kind # "none" THEN Fail(a.err, a.st)
    ELSE instantiateWithProperties(t, c, Len(a.st.heap) + 1, options, path,
            parentLifecycle,
            emit(construct(c, r, a.args, path, a.st),
                 Event("instantiate", c, a.st.regs[r], path, Len(path) - 1, FALSE, NoError)))

\* container.ts 722-725 with the constructor arguments a
constructWith(t, c, r, options, path, parentLifecycle, a) ==
    IF a.err.kind # "none" THEN Fail(a.err, a.st)
    ELSE announce(c, r, path,
            instantiateWithProperties(t, c, Len(a.st.heap) + 1, options, path,
                                      parentLifecycle, construct(c, r, a.args, path, a.st)))

instantiate(t, c, r, options, path, parentLifecycle, st) ==
    constructWith(t, c, r, options, path, parentLifecycle,
                  resolveParams(t, c, r, 1, <<>>, options, path, parentLifecycle, st))

\* a resolveSingleton that keeps what a failed attempt constructed last
storeAnyway(r, made) ==
    IF Failed(made) THEN [made EXCEPT !.st.regs[r].singletonInstance = Len(made.st.heap)]
    ELSE Ok(made.val, FALSE, [made.st EXCEPT !.regs[r].singletonInstance = made.val.id])

\* container.ts 626: registration.singletonInstance = <the new instance>
storeSingleton(r, made) ==
    IF Failed(made) THEN made
    ELSE Ok(made.val, FALSE, [made.st EXCEPT !.regs[r].singletonInstance = made.val.id])

resolveSingleton(t, c, r, options, path, st) ==
    IF singletonCached(st.regs[r])
    THEN Ok(Inst(st.regs[r].singletonInstance), TRUE, st)
    ELSE storeSingleton(r, instantiate(t, c, r, options, path, st.regs[r].lifecycle, st))

\* container.ts 669: session.set(registration.token, instance)
storeScoped(c, sessionId, token, made) ==
    IF Failed(made) THEN made
    ELSE Ok(made.val, FALSE,
            [made.st EXCEPT !.sessions[c][sessionId] = sessionSet(@, token, made.val)])

\* container.ts 654: options.scope ?? info?.scope
effectiveScope(c, sessionId, options) ==
    IF options.scope # None THEN options.scope ELSE infoScope(c, sessionId)

\* a resolveScoped that does not hand the session on to the dependencies of
\* the instance it builds
resolveScopedForgetful(t, c, r, sessionId, options, path, st) ==
    IF sessionId \notin DOMAIN st.sessions[c] THEN Fail(Err("SessionNotFound"), st)
    ELSE IF sessionHas(st.sessions[c][sessionId], st.regs[r].token)
    THEN Ok(sessionGet(st.sessions[c][sessionId], st.regs[r].token), TRUE, st)
    ELSE storeScoped(c, sessionId, st.regs[r].token,
            instantiate(t, c, r, NoOptions, path, st.regs[r].lifecycle, st))

\* a resolveScoped that builds an uncached instance when the session is gone
resolveScopedDetached(t, c, r, sessionId, options, path, st) ==
    IF sessionId \notin DOMAIN st.sessions[c]
    THEN instantiate(t, c, r, options, path, st.regs[r].lifecycle, st)
    ELSE IF sessionHas(st.sessions[c][sessionId], st.regs[r].token)
    THEN Ok(sessionGet(st.sessions[c][sessionId], st.regs[r].token), TRUE, st)
    ELSE storeScoped(c, sessionId, st.regs[r].token,
            instantiate(t, c, r, options, path, st.regs[r].lifecycle, st))

resolveScoped(t, c, r, sessionId, options, path, st) ==
    IF sessionId \notin DOMAIN st.sessions[c] THEN Fail(Err("SessionNotFound"), st)
    ELSE IF options.scope # None /\ infoScope(c, sessionId) # None
            /\ infoScope(c, sessionId) # options.scope
    THEN Fail(Err("ScopeMismatch"), st)
    ELSE IF sessionHas(st.sessions[c][sessionId], st.regs[r].token)
    THEN Ok(sessionGet(st.sessions[c][sessionId], st.regs[r].token), TRUE, st)
    ELSE storeScoped(c, sessionId, st.regs[r].token,
            instantiate(t, c, r,
                        [sessionId |-> sessionId,
                         scope |-> effectiveScope(c, sessionId, options)],
                        path, st.regs[r].lifecycle, st))

\* a session choice that prefers the ambient session to the one the options name
sessionIdAmbientFirst(t, c, options) ==
    IF getStore(t, c).sessionId # 0 THEN getStore(t, c).sessionId ELSE options.sessionId

\* container.ts 602: options.sessionId ?? this.sessionStorage.getStore()?.sessionId
sessionIdFor(t, c, options) ==
    IF options.sessionId # 0 THEN options.sessionId ELSE getStore(t, c).sessionId

\* a lifecycle switch that sends Transient registrations to the singleton slot
resolveByLifecycleCaching(t, c, r, options, path, st) ==
    IF st.regs[r].lifecycle = Scoped THEN
        (IF sessionIdFor(t, c, options) = 0 THEN Fail(Err("NoActiveSession"), st)
         ELSE resolveScoped(t, c, r, sessionIdFor(t, c, options), options, path, st))
    ELSE resolveSingleton(t, c, r, options, path, st)

resolveByLifecycle(t, c, r, options, path, st) ==
    IF st.regs[r].lifecycle = Singleton THEN resolveSingleton(t, c, r, options, path, st)
    ELSE IF st.regs[r].lifecycle = Scoped THEN
        (IF sessionIdFor(t, c, options) = 0 THEN Fail(Err("NoActiveSession"), st)
         ELSE resolveScoped(t, c, r, sessionIdFor(t, c, options), options, path, st))
    ELSE instantiate(t, c, r, options, path, st.regs[r].lifecycle, st)

\* a cycle check whose error leaves the repeated token out of the path
guardedShortPath(t, c, r, options, path, parentLifecycle, started) ==
    IF onPath(path, started.regs[r].token)
    THEN Fail(CircularDependency(path), started)
    ELSE IF capturesScoped(parentLifecycle, started.regs[r].lifecycle)
    THEN Fail(LifecycleViolation(IF Len(path) > 0 THEN path[Len(path)] ELSE "root",
                                 started.regs[r].token), started)
    ELSE resolveByLifecycle(t, c, r, options, Append(path, started.regs[r].token), started)

\* the try block of resolveRegistration (container.ts 544-564)
guarded(t, c, r, options, path, parentLifecycle, started) ==
    IF onPath(path, started.regs[r].token)
    THEN Fail(CircularDependency(Append(path, started.regs[r].token)), started)
    ELSE IF capturesScoped(parentLifecycle, started.regs[r].lifecycle)
    THEN Fail(LifecycleViolation(IF Len(path) > 0 THEN path[Len(path)] ELSE "root",
                                 started.regs[r].token), started)
    ELSE resolveByLifecycle(t, c, r, options, Append(path, started.regs[r].token), started)

\* a resolveRegistration without a catch block: a failure emits nothing
settleSilent(c, registration, nextPath, depth, res) ==
    IF Failed(res) THEN res
    ELSE Ok(res.val, res.cached,
            emit(res.st, Event("resolve:success", c, registration, nextPath, depth,
                               res.cached, NoError)))

\* the end of resolveRegistration (container.ts 566-590): resolve:success and
\* the instance, or resolve:error and the error thrown on
settle(c, registration, nextPath, depth, res) ==
    IF Failed(res)
    THEN Fail(res.err, emit(res.st, Event("resolve:error", c, registration, nextPath,
                                          depth, FALSE, res.err)))
    ELSE Ok(res.val, res.cached,
            emit(res.st, Event("resolve:success", c, registration, nextPath, depth,
                               res.cached, NoError)))

resolveRegistration(t, c, r, options, path, parentLifecycle, st) ==
    settle(c, st.regs[r], Append(path, st.regs[r].token), Len(path),
           guarded(t, c, r, options, path, parentLifecycle,
                   emit(st, Event("resolve:start", c, st.regs[r],
                                  Append(path, st.regs[r].token), Len(path), FALSE,
                                  NoError))))

\* a resolve that never consults the parent
resolveLocally(t, c, token, options, st) ==
    IF findRegistration(c, token) = 0 THEN
        Fail([Err(IF parent[c] # 0 THEN "NotAvailableInContainer" ELSE "NotFound")
                 EXCEPT !.dep = describeToken(token)], st)
    ELSE resolveRegistration(t, c, findRegistration(c, token),
                             normalizeResolveOptions(t, c, options), <<>>, None, st)

RECURSIVE resolve(_, _, _, _, _)
resolve(t, c, token, options, st) ==
    IF findRegistration(c, token) = 0 THEN
        (IF parent[c] # 0 /\ canInheritToken(c, token)
         THEN resolve(t, parent[c], token, options, st)
         ELSE Fail([Err(IF parent[c] # 0 THEN "NotAvailableInContainer" ELSE "NotFound")
                       EXCEPT !.dep = describeToken(token)], st))
    ELSE resolveRegistration(t, c, findRegistration(c, token),
                             normalizeResolveOptions(t, c, options), <<>>, None, st)

\* ------------------------------------------------------------- operations
TypeOK ==
    /\ meta \in Graphs
    /\ nCont \in Containers
    /\ Len(regs) <= MaxRegs
    /\ Len(heap) <= MaxHeap

\* the mutable program state a resolve call works on
Snapshot == [regs |-> regs, sessions |-> sessions, heap |-> heap, log |-> <<>>]

\* ------------------------------------------------------------ the event bus
\* the events listeners subscribe to here
ListenEvents == {"resolve:start", "dispose"}

\* The listener functions. When it is invoked a listener returns, calls the
\* unsubscribe function it got from on(), calls off(event, arg) or
\* on(event, arg) of the container `at`, or throws.
Listener(does, at, arg) == [does |-> does, at |-> at, arg |-> arg]
ListenerMenu ==
    <<Listener("returns", 0, 0), Listener("leaves", 0, 0), Listener("removes", 1, 1),
      Listener("adds", 1, 1), Listener("throws", 0, 0)>>
Listeners == DOMAIN ListenerMenu

\* set.delete(listener) on a Set kept as the sequence of its members in
\* insertion order
RECURSIVE Without(_, _)
Without(set, l) ==
    IF set = <<>> THEN <<>>
    ELSE IF Head(set) = l THEN Tail(set)
    ELSE <<Head(set)>> \o Without(Tail(set), l)

\* the listener set of container c for an event
listenersOf(b, c, ev) == IF ev \in ListenEvents THEN b.listeners[c][ev] ELSE <<>>

\* on(event, listener) / off(event, listener) of container c, on the bus
\* b = [listeners, heard, thrown]
on(b, c, ev, l) ==
    IF l \in Range(b.listeners[c][ev]) THEN b
    ELSE [b EXCEPT !.listeners[c][ev] = Append(@, l)]
off(b, c, ev, l) == [b EXCEPT !.listeners[c][ev] = Without(@, l)]

\* what listener l, invoked by container c for event ev, does
act(c, ev, l, b) ==
    CASE ListenerMenu[l].does = "leaves" -> off(b, c, ev, l)
      [] ListenerMenu[l].does = "removes" ->
            off(b, ListenerMenu[l].at, ev, ListenerMenu[l].arg)
      [] ListenerMenu[l].does = "adds" -> on(b, ListenerMenu[l].at, ev, ListenerMenu[l].arg)
      [] ListenerMenu[l].does = "throws" -> [b EXCEPT !.thrown = TRUE]
      [] OTHER -> b

\* listener(payload) (container.ts 516)
called(c, e, l, b) ==
    act(c, e.event, l,
        [b EXCEPT !.heard = Append(@, [listener |-> l, at |-> c, payload |-> e])])

\* a loop over the live Set: a listener deleted from it before its turn is
\* not visited
RECURSIVE invokeLive(_, _, _, _)
invokeLive(c, e, snapshot, b) ==
    IF snapshot = <<>> \/ b.thrown THEN b
    ELSE IF Head(snapshot) \notin Range(listenersOf(b, c, e.event))
    THEN invokeLive(c, e, Tail(snapshot), b)
    ELSE invokeLive(c, e, Tail(snapshot), called(c, e, Head(snapshot), b))

\* the loop of emit over Array.from(set) (container.ts 515-517); an exception
\* thrown by a listener ends it
RECURSIVE invokeAll(_, _, _, _)
invokeAll(c, e, snapshot, b) ==
    IF snapshot = <<>> \/ b.thrown THEN b
    ELSE invokeAll(c, e, Tail(snapshot), called(c, e, Head(snapshot), b))

RECURSIVE emitTo(_, _, _)
\* an emit that hands the event to the parent only when the container has no
\* listener of its own
cascadeUnheard(c, e, b) ==
    IF b.thrown \/ parent[c] = 0 \/ listenersOf(b, c, e.event) # <<>> THEN b
    ELSE emitTo(parent[c], e, b)

\* container.ts 509-513, 518-520: this.parent.emit(event, payload)
cascade(c, e, b) == IF b.thrown \/ parent[c] = 0 THEN b ELSE emitTo(parent[c], e, b)

\* emit(event, payload) of container c
emitTo(c, e, b) == cascade(c, e, invokeAll(c, e, listenersOf(b, c, e.event), b))

\* the bus at the start of an operation
Bus == [listeners |-> listeners, heard |-> <<>>, thrown |-> FALSE]

\* the bus after the events of a log have been emitted one by one, each by
\* the container that resolved the registration
RECURSIVE told(_, _)
told(log, b) ==
    IF log = <<>> THEN b ELSE told(Tail(log), emitTo(Head(log).cont, Head(log), b))

\* the effect of the emissions of an operation on the listener sets
informed(b) ==
    /\ listeners' = b.listeners
    /\ heard' = b.heard

\* a register that also enters the new Registration into the parent's map
addRegistrationUpward(c, token, target, lifecycle, type) ==
    /\ regs' = Append(regs, [cont |-> c, token |-> token, type |-> type,
                             lifecycle |-> lifecycle, target |-> target,
                             singletonInstance |-> 0])
    /\ byToken' = [n \in Containers |->
                    IF n = c \/ n = parent[c]
                    THEN [byToken[n] EXCEPT ![token] = Len(regs) + 1]
                    ELSE byToken[n]]
    /\ byCtor' = [byCtor EXCEPT ![c][target] = Len(regs) + 1]

\* container.ts 153-163: a new Registration object enters both maps
addRegistration(c, token, target, lifecycle, type) ==
    /\ regs' = Append(regs, [cont |-> c, token |-> token, type |-> type,
                             lifecycle |-> lifecycle, target |-> target,
                             singletonInstance |-> 0])
    /\ byToken' = [byToken EXCEPT ![c][token] = Len(regs) + 1]
    /\ byCtor' = [byCtor EXCEPT ![c][target] = Len(regs) + 1]

\* a register that overwrites an existing binding with a new Registration
registerAlwaysNew(c, target, name) == [err |-> NoError, reg |-> Len(regs) + 1]

\* register(target, {name}) up to its return or throw (container.ts 141-163):
\* the Registration answered (its index; Len(regs) + 1 is a new object) or the
\* DuplicateRegistration error
registerResult(c, target, name) ==
    IF byToken[c][generateToken(target, name)] = 0
    THEN [err |-> NoError, reg |-> Len(regs) + 1]
    ELSE IF regs[byToken[c][generateToken(target, name)]].target # target
    THEN [err |-> Err("DuplicateRegistration"), reg |-> 0]
    ELSE [err |-> NoError, reg |-> byToken[c][generateToken(target, name)]]

\* the effect of a register call that answered res
registered(c, target, name, lifecycle, type, res) ==
    IF res.reg = Len(regs) + 1
    THEN /\ Len(regs) < MaxRegs
         /\ addRegistration(c, generateToken(target, name), target, lifecycle, type)
    ELSE UNCHANGED <<regs, byToken, byCtor>>

\* register(target, {name, type, lifecycle})
Register(c, target, name, lifecycle, type) ==
    /\ c <= nCont
    /\ registered(c, target, name, lifecycle, type, registerResult(c, target, name))
    /\ UNCHANGED <<meta, registeredModules, nCont, parent, inheritance, sessions, sessionInfos,
                   sessionCounter, heap, frames, promises, listeners, heard>>

\* ------------------------------------------------------------------ modules
\* a provider of a module: a class, or {provide, useClass, options}
\* (module.ts 4-10); provide of kind "none": no provide entry
NoProvide == [kind |-> "none", name |-> None, cls |-> None, fwd |-> <<>>]
Provider(useClass, provide, name, lifecycle) == [useClass |-> useClass, provide |-> provide, name |-> name, lifecycle |-> lifecycle]

\* The module objects made by createModule({imports, providers}): 1 imports 2
\* and 3, which both import 4 (a diamond); 3 imports 1 back (a cycle); 5
\* imports itself and provides A under the alias "x", which 3 gives to B.
ModuleMenu ==
    <<[imports |-> <<2, 3>>, providers |-> <<Provider("cA", NoProvide, None, Transient)>>],
      [imports |-> <<4>>, providers |-> <<Provider("cB", CtorTok("cB"), None, Singleton)>>],
      [imports |-> <<4, 1>>, providers |-> <<Provider("cB", StrTok("x"), None, Singleton)>>],
      [imports |-> <<>>, providers |-> <<Provider("cC", NoProvide, None, Singleton)>>],
      [imports |-> <<5, 4>>, providers |-> <<Provider("cA", StrTok("x"), None, Singleton)>>]>>
Modules == DOMAIN ModuleMenu

\* the registry a registerModule call works on, and what the call did:
\* the configure calls entered and left and the providers registered
Registry ==
    [regs |-> regs, byToken |-> byToken, byCtor |-> byCtor,
     registeredModules |-> registeredModules, trace |-> <<>>, thrown |-> FALSE]

Step(kind, m, token) == [kind |-> kind, module |-> m, token |-> token]

\* module.ts 56-60: the options passed to register; a string `provide`
\* becomes the name unless the options have one
optsName(p) ==
    IF p.name # None THEN p.name
    ELSE IF p.provide.kind = "str" THEN p.provide.name
    ELSE None

\* container.register(useClass, opts) on the registry g (container.ts 138-164)
registerIn(c, m, useClass, name, lifecycle, g) ==
    IF g.byToken[c][generateToken(useClass, name)] = 0
    THEN [g EXCEPT !.regs = Append(@, [cont |-> c, token |-> generateToken(useClass, name),
                                       type |-> Service, lifecycle |-> lifecycle,
                                       target |-> useClass, singletonInstance |-> 0]),
                   !.byToken[c][generateToken(useClass, name)] = Len(g.regs) + 1,
                   !.byCtor[c][useClass] = Len(g.regs) + 1,
                   !.trace = Append(@, Step("register", m, generateToken(useClass, name)))]
    ELSE IF g.regs[g.byToken[c][generateToken(useClass, name)]].target # useClass
    THEN [g EXCEPT !.thrown = TRUE]
    ELSE [g EXCEPT !.trace = Append(@, Step("register", m, generateToken(useClass, name)))]

\* module.ts 53-63: the loop over the providers of module m
RECURSIVE provideAll(_, _, _, _)
provideAll(c, m, providers, g) ==
    IF providers = <<>> \/ g.thrown THEN g
    ELSE provideAll(c, m, Tail(providers),
                    registerIn(c, m, Head(providers).useClass, optsName(Head(providers)),
                               Head(providers).lifecycle, g))

RECURSIVE registerModule(_, _, _)
\* module.ts 49-51: the loop over the imports
RECURSIVE importAll(_, _, _)
importAll(c, imports, g) ==
    IF imports = <<>> \/ g.thrown THEN g
    ELSE importAll(c, Tail(imports), registerModule(c, Head(imports), g))

\* configure of module m has been entered / has returned
enteredConfigure(m, g) == [g EXCEPT !.trace = Append(@, Step("configure", m, None))]
returnedConfigure(m, g) ==
    IF g.thrown THEN g ELSE [g EXCEPT !.trace = Append(@, Step("configured", m, None))]

\* a configure that registers the providers of the module before its imports
configureOwnFirst(c, m, g) ==
    returnedConfigure(m,
        importAll(c, ModuleMenu[m].imports,
                  provideAll(c, m, ModuleMenu[m].providers, enteredConfigure(m, g))))

\* moduleRef.configure(container) (module.ts 48-64)
configure(c, m, g) ==
    returnedConfigure(m,
        provideAll(c, m, ModuleMenu[m].providers,
                   importAll(c, ModuleMenu[m].imports, enteredConfigure(m, g))))

\* registerModule(module) (container.ts 166-173)
registerModule(c, m, g) ==
    IF m \in g.registeredModules[c] THEN g
    ELSE configure(c, m, [g EXCEPT !.registeredModules[c] = @ \cup {m}])

\* registerModules(container, ...modules) (module.ts 70-74)
RECURSIVE registerModules(_, _, _)
registerModules(c, modules, g) ==
    IF modules = <<>> \/ g.thrown THEN g
    ELSE registerModules(c, Tail(modules), registerModule(c, Head(modules), g))

\* the effect of module registrations that ended in g, returned or thrown
configured(g) ==
    /\ Len(g.regs) <= MaxModuleRegs
    /\ regs' = g.regs
    /\ byToken' = g.byToken
    /\ byCtor' = g.byCtor
    /\ registeredModules' = g.registeredModules
    /\ UNCHANGED <<meta, nCont, parent, inheritance, sessions, sessionInfos,
                   sessionCounter, heap, frames, promises, listeners, heard>>

\* container.registerModule(module)
RegisterModule(c, m) ==
    /\ c <= nCont
    /\ configured(registerModule(c, m, Registry))

\* registerModules(container, ...modules)
RegisterModules(c, modules) ==
    /\ c <= nCont
    /\ configured(registerModules(c, modules, Registry))

\* list(type): reads only
List(c, type) ==
    /\ c <= nCont
    /\ Len(list(c, type)) >= 0
    /\ UNCHANGED vars

\* createChild(options)
CreateChild(p, options) ==
    /\ p <= nCont
    /\ nCont < MaxContainers
    /\ nCont' = nCont + 1
    /\ parent' = [parent EXCEPT ![nCont + 1] = p]
    /\ inheritance' = [inheritance EXCEPT ![nCont + 1] = normalizeChildOptions(options)]
    /\ UNCHANGED <<meta, registeredModules, regs, byToken, byCtor, sessions, sessionInfos, sessionCounter,
                   heap, frames, promises, listeners, heard>>

\* the effect of a resolve call that ended with res (returned or thrown)
resolved(res) ==
    /\ Len(res.st.heap) <= MaxHeap
    /\ regs' = res.st.regs
    /\ sessions' = res.st.sessions
    /\ heap' = res.st.heap
    /\ informed(told(res.st.log, Bus))
    /\ UNCHANGED <<meta, registeredModules, nCont, parent, inheritance, byToken, byCtor, sessionInfos,
                   sessionCounter, frames, promises>>

\* resolve(token, options), called by task t
Resolve(t, c, token, options) ==
    /\ c <= nCont
    /\ resolved(resolve(t, c, token, options, Snapshot))

\* a closure that captured nothing: it resolves with the options of a bare
\* resolve(token) call
invokeBare(t, th, st) ==
    resolveRegistration(t, th.cont, th.reg, NoOptions, <<>>, th.plc, st)

\* what calling the closure th does (container.ts 797, 826)
invoke(t, th, st) ==
    resolveRegistration(t, th.cont, th.reg, [sessionId |-> th.sid, scope |-> th.scope],
                        <<>>, th.plc, st)

\* a consumer calls the closure it was given for a lazy forwardRef dependency
InvokeThunk(t, i, j) ==
    /\ i \in DOMAIN heap
    /\ j \in DOMAIN heap[i].args
    /\ heap[i].args[j].kind = "thunk"
    /\ resolved(invoke(t, heap[i].args[j], Snapshot))

\* on(event, listener)
On(c, ev, l) ==
    /\ c <= nCont
    /\ listeners' = on(Bus, c, ev, l).listeners
    /\ UNCHANGED <<meta, registeredModules, nCont, parent, inheritance, regs, byToken, byCtor, sessions,
                   sessionInfos, sessionCounter, heap, frames, promises, heard>>

\* off(event, listener), or the function returned by on(event, listener)
Off(c, ev, l) ==
    /\ c <= nCont
    /\ listeners' = off(Bus, c, ev, l).listeners
    /\ UNCHANGED <<meta, registeredModules, nCont, parent, inheritance, regs, byToken, byCtor, sessions,
                   sessionInfos, sessionCounter, heap, frames, promises, heard>>

\* ---------------------------------------------------------------- sessions
\* the dispose() method of instance id
hookOf(d, id) == meta[d.heap[id].cls].dispose

\* instance.dispose() returns a promise
returnsPromise(kind) == kind \in {"async", "rejects"}

\* a disposeAsyncIfPossible whose call of the hook is not inside a try block
disposeUnguarded(d, id) ==
    IF hookOf(d, id) = "none" THEN [d EXCEPT !.result = "undefined"]
    ELSE [d EXCEPT !.heap[id].disposed = @ + 1,
                   !.thrown = hookOf(d, id) = "throws",
                   !.result = IF returnsPromise(hookOf(d, id)) THEN "promise"
                              ELSE "undefined"]

\* disposeAsyncIfPossible(instance) on the teardown state d: the hook is called
\* when the instance has one; an exception it throws is swallowed (922) and
\* a promise it returns is handed back (917-920)
disposeAsyncIfPossible(d, id) ==
    IF hookOf(d, id) = "none" THEN [d EXCEPT !.result = "undefined"]
    ELSE [d EXCEPT !.heap[id].disposed = @ + 1,
                   !.result = IF returnsPromise(hookOf(d, id)) THEN "promise"
                              ELSE "undefined"]

DisposeEvent(c, token, sessionId, id) ==
    [event |-> "dispose", cont |-> c, token |-> token, target |-> None,
     lifecycle |-> None, path |-> <<>>, depth |-> sessionId, cached |-> FALSE,
     error |-> NoError]

\* an asyncDisposals that keeps only the promise pushed last
pushAlone(d, id) ==
    IF d.result = "promise" THEN [d EXCEPT !.asyncDisposals = {id}] ELSE d

\* container.ts 272-274, 307-309: the promise of a hook is pushed on the list
\* of disposals the call waits for
push(d, id) ==
    IF d.result = "promise" THEN [d EXCEPT !.asyncDisposals = @ \cup {id}] ELSE d

\* container.ts 271-274, 306-309 after the dispose event of the instance has
\* been emitted: an exception thrown by a listener has left the loop
disposed(d, id) == IF d.thrown THEN d ELSE push(disposeAsyncIfPossible(d, id), id)

\* the loop of destroySession over the entries of one instance cache, on the
\* state d = [sessions, sessionInfos, regs, heap, log, asyncDisposals, result,
\* thrown]; an exception ends it
RECURSIVE disposeEntries(_, _, _, _)
disposeEntries(c, sessionId, entries, d) ==
    IF entries = <<>> \/ d.thrown THEN d
    ELSE disposeEntries(c, sessionId, Tail(entries),
            disposed(emitTo(c, DisposeEvent(c, Head(entries).token, sessionId,
                                            Head(entries).instance.id),
                            [d EXCEPT !.log = Append(@, DisposeEvent(c, Head(entries).token,
                                                  sessionId, Head(entries).instance.id))]),
                     Head(entries).instance.id))

\* container.ts 280-281
forget(c, sessionId, d) ==
    IF d.thrown THEN d
    ELSE [d EXCEPT !.sessions[c] = Delete(@, sessionId),
                   !.sessionInfos[c] = Delete(@, sessionId)]

\* destroySession(sessionId)
destroySession(c, sessionId, d) ==
    forget(c, sessionId,
           IF sessionId \in DOMAIN d.sessions[c]
           THEN disposeEntries(c, sessionId, d.sessions[c][sessionId], d)
           ELSE d)

Teardown == [sessions |-> sessions, sessionInfos |-> sessionInfos, regs |-> regs,
             heap |-> heap, log |-> <<>>, asyncDisposals |-> {}, result |-> "undefined",
             thrown |-> FALSE, listeners |-> listeners, heard |-> <<>>]

\* the session maps and the counter of container c after createSession(scope)
\* (container.ts 215-221)
opened(c, scope) ==
    [sessionCounter |-> [sessionCounter EXCEPT ![c] = @ + 1],
     sessions |-> [sessions EXCEPT ![c] = Put(@, sessionCounter[c] + 1, <<>>)],
     sessionInfos |-> [sessionInfos EXCEPT ![c] =
                            Put(@, sessionCounter[c] + 1,
                                [id |-> sessionCounter[c] + 1, scope |-> scope])]]

\* createSession(scope) on the session maps
createSession(c, scope) ==
    /\ sessionCounter[c] < MaxSessions
    /\ sessionCounter' = opened(c, scope).sessionCounter
    /\ sessions' = opened(c, scope).sessions
    /\ sessionInfos' = opened(c, scope).sessionInfos

\* createSession(scope)
CreateSession(c, scope) ==
    /\ c <= nCont
    /\ createSession(c, scope)
    /\ UNCHANGED <<meta, registeredModules, nCont, parent, inheritance, regs, byToken, byCtor, heap, frames,
                   promises, listeners, heard>>

\* the effect of a teardown that ended in state d
tornDown(d) ==
    /\ sessions' = d.sessions
    /\ sessionInfos' = d.sessionInfos
    /\ heap' = d.heap
    /\ regs' = d.regs
    /\ informed(d)

\* the promise a teardown call answers with when its list of disposals is not
\* empty (container.ts 283-285, 321-323, 250-256): it waits for the hooks in
\* `awaiting` and then settles as `outcome`
Promise(op, c, sessionId, outcome, awaiting) ==
    [op |-> op, cont |-> c, sessionId |-> sessionId, outcome |-> outcome,
     awaiting |-> awaiting, failed |-> FALSE]

\* the call that ended the teardown in state d hands its promise to the caller
promised(op, c, sessionId, outcome, d) ==
    promises' = IF d.asyncDisposals = {} \/ d.thrown THEN promises
                ELSE promises \cup {Promise(op, c, sessionId, outcome, d.asyncDisposals)}

\* destroySession(sessionId)
DestroySession(c, sessionId) ==
    /\ c <= nCont
    /\ tornDown(destroySession(c, sessionId, Teardown))
    /\ promised("destroySession", c, sessionId, "undefined",
                destroySession(c, sessionId, Teardown))
    /\ UNCHANGED <<meta, registeredModules, nCont, parent, inheritance, byToken, byCtor, sessionCounter,
                   frames>>

\* the first loop of clear(): destroySession for every live session id
RECURSIVE destroyAll(_, _, _)
destroyAll(c, ids, d) ==
    IF ids = <<>> THEN d
    ELSE destroyAll(c, Tail(ids), destroySession(c, Head(ids), d))

\* container.ts 311
emptySlot(r, d) == IF d.thrown THEN d ELSE [d EXCEPT !.regs[r].singletonInstance = 0]

\* container.ts 299-311: dispose the instance of a filled slot and empty it
disposeSingleton(c, r, d) ==
    IF d.thrown \/ d.regs[r].singletonInstance = 0 THEN d
    ELSE emptySlot(r,
            disposed(emitTo(c, DisposeEvent(c, d.regs[r].token, 0,
                                            d.regs[r].singletonInstance),
                            [d EXCEPT !.log = Append(@, DisposeEvent(c, d.regs[r].token, 0,
                                                  d.regs[r].singletonInstance))]),
                     d.regs[r].singletonInstance))

\* the second loop of clear(), over registrationsByToken.values()
RECURSIVE disposeSingletons(_, _, _)
disposeSingletons(c, rs, d) ==
    IF rs = <<>> THEN d
    ELSE disposeSingletons(c, Tail(rs), disposeSingleton(c, Head(rs), d))

\* a clear() that ends the sessions and leaves the singleton slots alone
clearSessionsOnly(c, d) == destroyAll(c, SortedSeq(DOMAIN d.sessions[c]), d)

\* clear() up to the reset of the maps
clear(c, d) ==
    disposeSingletons(c, localRegistrations(c),
                      destroyAll(c, SortedSeq(DOMAIN d.sessions[c]), d))

\* the effect of clear(): container.ts 314-319 after the teardown d
reset(c, d) ==
    /\ regs' = d.regs
    /\ heap' = d.heap
    /\ informed(d)
    /\ byToken' = IF d.thrown THEN byToken ELSE [byToken EXCEPT ![c] = [n \in Names |-> 0]]
    /\ byCtor' = IF d.thrown THEN byCtor ELSE [byCtor EXCEPT ![c] = [k \in Classes |-> 0]]
    /\ sessions' = IF d.thrown THEN d.sessions ELSE [sessions EXCEPT ![c] = EmptyMap]
    /\ sessionInfos' = IF d.thrown THEN d.sessionInfos
                       ELSE [sessionInfos EXCEPT ![c] = EmptyMap]
    /\ sessionCounter' = IF d.thrown THEN sessionCounter
                         ELSE [sessionCounter EXCEPT ![c] = 0]
    /\ registeredModules' = IF d.thrown THEN registeredModules
                             ELSE [registeredModules EXCEPT ![c] = {}]

\* clear()
Clear(c) ==
    /\ c <= nCont
    /\ reset(c, clear(c, Teardown))
    /\ promised("clear", c, 0, "undefined", clear(c, Teardown))
    /\ UNCHANGED <<meta, nCont, parent, inheritance, frames>>

\* what runInSession(callback, existingSessionId, scopeName) throws before it
\* invokes the callback (container.ts 228-238)
runInSessionError(c, existingSessionId, scopeName) ==
    IF existingSessionId = 0 THEN NoError
    ELSE IF existingSessionId \notin DOMAIN sessionInfos[c] THEN Err("SessionNotFound")
    ELSE IF scopeName # None /\ infoScope(c, existingSessionId) # None
            /\ infoScope(c, existingSessionId) # scopeName
    THEN Err("ScopeMismatch")
    ELSE NoError

\* the session maps as they are
unopened ==
    [sessionCounter |-> sessionCounter, sessions |-> sessions,
     sessionInfos |-> sessionInfos]

\* the call threw before the callback was invoked: task t is where it was
refused(t, e) ==
    [frames |-> frames[t], sessionCounter |-> e.sessionCounter, sessions |-> e.sessions,
     sessionInfos |-> e.sessionInfos]

\* sessionStorage.run(context, () => callback()): the callback of task t
\* starts inside a new extent f
run(t, e, f) ==
    [frames |-> Append(frames[t], f), sessionCounter |-> e.sessionCounter,
     sessions |-> e.sessions, sessionInfos |-> e.sessionInfos]

\* a runInSession that runs the callback in a new session when the checks of
\* the existing one fail
enteredAnyway(t, c, existingSessionId, scopeName) ==
    IF existingSessionId # 0
            /\ runInSessionError(c, existingSessionId, scopeName).kind = "none"
    THEN run(t, unopened, [cont |-> c, sessionId |-> existingSessionId,
                           scope |-> infoScope(c, existingSessionId), owned |-> FALSE])
    ELSE run(t, opened(c, scopeName),
             [cont |-> c, sessionId |-> sessionCounter[c] + 1, scope |-> scopeName,
              owned |-> TRUE])

\* runInSession(callback, existingSessionId, scopeName) up to the point where
\* sessionStorage.run invokes the callback (container.ts 228-248): the
\* session maps and the frames of task t at that point; a failed check
\* throws before anything happened
entered(t, c, existingSessionId, scopeName) ==
    IF existingSessionId # 0 THEN
        (IF runInSessionError(c, existingSessionId, scopeName).kind = "none"
         THEN run(t, unopened, [cont |-> c, sessionId |-> existingSessionId,
                                scope |-> infoScope(c, existingSessionId),
                                owned |-> FALSE])
         ELSE refused(t, unopened))
    ELSE run(t, opened(c, scopeName),
             [cont |-> c, sessionId |-> sessionCounter[c] + 1, scope |-> scopeName,
              owned |-> TRUE])

\* the effect of a runInSession call that got as far as e
began(t, e) ==
    /\ frames' = [frames EXCEPT ![t] = e.frames]
    /\ sessions' = e.sessions
    /\ sessionInfos' = e.sessionInfos
    /\ sessionCounter' = e.sessionCounter

\* runInSession(callback, existingSessionId, scopeName) up to the point where
\* sessionStorage.run invokes the callback; a failed check throws before that
RunInSessionEnter(t, c, existingSessionId, scopeName) ==
    /\ c <= nCont
    /\ Len(frames[t]) < MaxDepth
    /\ existingSessionId = 0 => sessionCounter[c] < MaxSessions
    /\ began(t, entered(t, c, existingSessionId, scopeName))
    /\ UNCHANGED <<meta, registeredModules, nCont, parent, inheritance, regs, byToken, byCtor, heap, promises,
                   listeners, heard>>

\* the ways the callback of a runInSession call ends: it returns a plain
\* value, it throws, or it returns a promise that later resolves or rejects
Outcomes == {"value", "throws", "resolves", "rejects"}

\* a runInSession that ends the session of the call whether it created it or not
leaveAlways(f, outcome, d) ==
    IF outcome # "throws" THEN destroySession(f.cont, f.sessionId, d) ELSE d

\* a runInSession that ends the session it created only after a callback
\* that returned a plain value
leaveOnReturn(f, outcome, d) ==
    IF f.owned /\ outcome = "value" THEN destroySession(f.cont, f.sessionId, d) ELSE d

\* container.ts 248-256: what follows the callback. The session created for the
\* call is destroyed when the callback returned (254) or when the promise it
\* returned settles (251); an existing session is left alone (240-243); an
\* exception of the callback leaves runInSession at line 248
leave(f, outcome, d) ==
    IF f.owned /\ outcome # "throws" THEN destroySession(f.cont, f.sessionId, d) ELSE d

\* a runInSession declared async: whatever the callback returned, the caller
\* gets a promise
runInSessionAsync(f, outcome, d) ==
    IF outcome = "throws"
    THEN [kind |-> "throw", outcome |-> outcome, awaiting |-> {}]
    ELSE [kind |-> "promise", outcome |-> outcome, awaiting |-> d.asyncDisposals]

\* what the caller of runInSession gets when the callback of frame f ended as
\* `outcome` and the teardown ended in state d: the exception, the value or
\* promise of the callback itself, or a promise that waits for the disposals
\* and then settles as the callback did
runInSessionResult(f, outcome, d) ==
    IF outcome = "throws"
    THEN [kind |-> "throw", outcome |-> outcome, awaiting |-> {}]
    ELSE IF outcome = "value" /\ d.asyncDisposals = {}
    THEN [kind |-> "value", outcome |-> outcome, awaiting |-> {}]
    ELSE [kind |-> "promise", outcome |-> outcome, awaiting |-> d.asyncDisposals]

\* the innermost frame of task t
top(t) == frames[t][Len(frames[t])]

\* the innermost runInSession call of task t ends after the teardown d
exit(t, outcome, d) ==
    /\ frames' = [frames EXCEPT ![t] = SubSeq(@, 1, Len(@) - 1)]
    /\ tornDown(d)
    /\ promised("runInSession", top(t).cont, top(t).sessionId, outcome, d)
    /\ UNCHANGED <<meta, registeredModules, nCont, parent, inheritance, byToken, byCtor, sessionCounter>>

\* the callback of the innermost runInSession of task t returns a plain value
RunInSessionReturn(t) ==
    /\ frames[t] # <<>>
    /\ exit(t, "value", leave(top(t), "value", Teardown))

\* the promise returned by the callback of the innermost runInSession of task
\* t settles
RunInSessionSettle(t, outcome) ==
    /\ frames[t] # <<>>
    /\ outcome \in {"resolves", "rejects"}
    /\ exit(t, outcome, leave(top(t), outcome, Teardown))

\* the callback of the innermost runInSession of task t throws
RunInSessionThrow(t) ==
    /\ frames[t] # <<>>
    /\ exit(t, "throws", leave(top(t), "throws", Teardown))

\* Promise.resolve(result).then(() => undefined).catch(() => undefined)
\* (container.ts 917-920, 273, 295, 308): a rejection ends as a resolution
caught(settlement) == "resolved"

\* how the promise returned by a hook of the given kind settles
settlement(kind) == IF kind = "rejects" THEN "rejected" ELSE "resolved"

\* Promise.all over the disposals: promise p after the hook of instance i
\* settled
afterSettled(p, i) ==
    IF i \in p.awaiting
    THEN [p EXCEPT !.awaiting = @ \ {i},
                   !.failed = @ \/ caught(settlement(meta[heap[i].cls].dispose)) = "rejected"]
    ELSE p

\* the promise returned by the dispose hook of instance i settles; a teardown
\* promise with nothing left to wait for settles and leaves the pending set
SettleDisposal(i) ==
    /\ \E p \in promises : i \in p.awaiting
    /\ promises' = {q \in {afterSettled(p, i) : p \in promises} :
                        q.awaiting # {} \/ q.failed}
    /\ UNCHANGED <<meta, registeredModules, nCont, parent, inheritance, regs, byToken, byCtor, sessions,
                   sessionInfos, sessionCounter, heap, frames, listeners, heard>>

\* ------------------------------------------------------------ specification
InitWith(graphs) ==
    /\ meta \in graphs
    /\ nCont = 1
    /\ parent = [c \in Containers |-> 0]
    /\ inheritance = [c \in Containers |-> NoRules]
    /\ regs = <<>>
    /\ byToken = [c \in Containers |-> [n \in Names |-> 0]]
    /\ byCtor = [c \in Containers |-> [k \in Classes |-> 0]]
    /\ sessions = [c \in Containers |-> EmptyMap]
    /\ sessionInfos = [c \in Containers |-> EmptyMap]
    /\ sessionCounter = [c \in Containers |-> 0]
    /\ registeredModules = [c \in Containers |-> {}]
    /\ heap = <<>>
    /\ frames = [t \in Tasks |-> <<>>]
    /\ promises = {}
    /\ listeners = [c \in Containers |-> [ev \in ListenEvents |-> <<>>]]
    /\ heard = <<>>

\* position of a class in declaration order
ClassRank == [k \in Classes |-> CASE k = "cA" -> 1 [] k = "cB" -> 2 [] OTHER -> 3]

\* classes are registered in declaration order
InOrder(c, k) ==
    \A n \in Names : byToken[c][n] # 0 => ClassRank[regs[byToken[c][n]].target] < ClassRank[k]

\* Lifetimes: the classes of the chain A -> B -> C are registered in the root
\* container under their own names with any lifecycle and resolved through the
\* root or an unfiltered child, with a session given explicitly, ambient or absent.
LifetimeContainers == 2
LifetimeSessions == 1

Init == InitWith({GraphChain})

Next ==
    \/ \E k \in Classes, lc \in Lifecycle : InOrder(1, k) /\ Register(1, k, None, lc, Service)
    \/ \E c \in 1..LifetimeContainers, k \in Classes, sid \in 0..LifetimeSessions :
            Resolve(1, c, CtorTok(k), [sessionId |-> sid, scope |-> None])
    \/ (nCont < LifetimeContainers /\ CreateChild(1, NoChildOptions))
    \/ (sessionCounter[1] < LifetimeSessions /\ CreateSession(1, None))
    \/ (sessionCounter[1] < LifetimeSessions /\ RunInSessionEnter(1, 1, 0, None))
    \/ RunInSessionReturn(1)
    \/ Clear(1)

Spec == Init /\ [][Next]_vars

\* Sessions: two sessions of the root container, created explicitly or by
\* runInSession, with the chain registered Scoped or Transient.
InitSessions == InitWith({GraphChain})

NextSessions ==
    \/ \E k \in {"cB", "cC"}, lc \in {Scoped, Transient} :
            InOrder(1, k) /\ Register(1, k, None, lc, Service)
    \/ \E k \in {"cB", "cC"}, sid \in 0..MaxSessions :
            Resolve(1, 1, CtorTok(k), [sessionId |-> sid, scope |-> None])
    \/ CreateSession(1, None)
    \/ \E sid \in 0..MaxSessions : RunInSessionEnter(1, 1, sid, None)
    \/ RunInSessionReturn(1)
    \/ \E sid \in 1..MaxSessions : DestroySession(1, sid)

SpecSessions == InitSessions /\ [][NextSessions]_vars

\* Cycles: classes that depend on each other through constructor parameters
\* or through injected properties.
InitCycles == InitWith({GraphCtorCycle, GraphPropCycle})

NextCycles ==
    \/ \E k \in Classes, lc \in Lifecycle : Register(1, k, None, lc, Service)
    \/ \E k \in Classes, sid \in 0..1 :
            Resolve(1, 1, CtorTok(k), [sessionId |-> sid, scope |-> None])
    \/ (sessionCounter[1] < 1 /\ CreateSession(1, None))

SpecCycles == InitCycles /\ [][NextCycles]_vars

\* Tree: a chain of containers root <- 2 <- 3 whose children are created with
\* or without inheritance filters; the root registers B under the alias "x"
\* and C, the children register A and B.
FilterMenu ==
    {NoChildOptions,
     ChildOptions({}, {StrTok("x")}), ChildOptions({}, {CtorTok("cB")}),
     ChildOptions({StrTok("x")}, {}), ChildOptions({CtorTok("cB")}, {}),
     ChildOptions({StrTok("x")}, {StrTok("x")})}

RequestMenu == {StrTok("x"), CtorTok("cA"), CtorTok("cB"), CtorTok("cC")}

InitTree == InitWith({GraphChain})

NextTree ==
    \/ \E lc \in {Singleton, Transient} : Register(1, "cB", "x", lc, Service)
    \/ \E lc \in {Singleton, Transient} : Register(1, "cC", None, lc, Service)
    \/ \E c \in 2..MaxContainers, k \in {"cA", "cB"} : Register(c, k, None, Transient, Service)
    \/ \E options \in FilterMenu : CreateChild(nCont, options)
    \/ \E c \in Containers, token \in RequestMenu : Resolve(1, c, token, NoOptions)

SpecTree == InitTree /\ [][NextTree]_vars

\* Listing: a root and one child, with or without filters; either registers A
\* or B under its own name or under the alias "x", as a service or a controller.
ListContainers == 2

InitList == InitWith({GraphChain})

NextList ==
    \/ \E c \in 1..ListContainers, k \in {"cA", "cB"}, name \in {None, "x"},
          lc \in {Singleton, Transient}, type \in ServiceType :
            Register(c, k, name, lc, type)
    \/ \E options \in FilterMenu : nCont < ListContainers /\ CreateChild(1, options)
    \/ \E c \in 1..ListContainers, type \in ServiceType \cup {None} : List(c, type)

SpecList == InitList /\ [][NextList]_vars

\* Callbacks: B and C, with dispose hooks of every kind, are registered
\* Scoped in the root; sessions are created explicitly or by runInSession,
\* whose callback returns, throws or returns a promise that settles, and the
\* promises returned by the hooks settle one by one.
InitAsync == InitWith(HookGraphs)

NextAsync ==
    \/ \E k \in {"cB", "cC"} : InOrder(1, k) /\ Register(1, k, None, Scoped, Service)
    \/ \E k \in {"cB", "cC"}, sid \in 0..MaxSessions :
            Resolve(1, 1, CtorTok(k), [sessionId |-> sid, scope |-> None])
    \/ CreateSession(1, None)
    \/ \E sid \in 0..MaxSessions : RunInSessionEnter(1, 1, sid, None)
    \/ RunInSessionReturn(1)
    \/ \E outcome \in {"resolves", "rejects"} : RunInSessionSettle(1, outcome)
    \/ RunInSessionThrow(1)
    \/ \E i \in 1..MaxHeap : SettleDisposal(i)

SpecAsync == InitAsync /\ [][NextAsync]_vars

\* Disposal: B and C, with dispose hooks of every kind, are registered Scoped
\* or Singleton in the root; a session ends by destroySession, by clear or
\* with the runInSession call that created it.
DisposalSessions == 1

InitDisposal == InitWith(HookGraphs)

NextDisposal ==
    \/ \E k \in {"cB", "cC"}, lc \in {Scoped, Singleton} :
            InOrder(1, k) /\ Register(1, k, None, lc, Service)
    \/ \E k \in {"cB", "cC"}, sid \in 0..MaxSessions :
            Resolve(1, 1, CtorTok(k), [sessionId |-> sid, scope |-> None])
    \/ (sessionCounter[1] < DisposalSessions /\ CreateSession(1, None))
    \/ (sessionCounter[1] < DisposalSessions /\ RunInSessionEnter(1, 1, 0, None))
    \/ RunInSessionReturn(1)
    \/ \E sid \in 1..DisposalSessions : DestroySession(1, sid)
    \/ Clear(1)
    \/ \E i \in 1..MaxHeap : SettleDisposal(i)

SpecDisposal == InitDisposal /\ [][NextDisposal]_vars

\* Scopes: sessions of the root with or without a scope tag, created
\* explicitly or by runInScope and entered again by id under any scope name.
InitScopes == InitWith({GraphChain})

NextScopes ==
    \/ Register(1, "cC", None, Scoped, Service)
    \/ \E sid \in 0..MaxSessions :
            Resolve(1, 1, CtorTok("cC"), [sessionId |-> sid, scope |-> None])
    \/ \E scope \in {None, "http"} : CreateSession(1, scope)
    \/ \E sid \in 0..MaxSessions, scopeName \in {None} \cup ScopeNames :
            RunInSessionEnter(1, 1, sid, scopeName)
    \/ RunInSessionReturn(1)
    \/ \E sid \in 1..MaxSessions : DestroySession(1, sid)

SpecScopes == InitScopes /\ [][NextScopes]_vars

\* Ambient: two tasks whose asynchronous callbacks interleave; each enters
\* runInSession on the root, with a new session or an existing one, possibly
\* nested, and resolves the Scoped class C without naming a session.
InitAmbient == InitWith({GraphChain})

NextAmbient ==
    \/ Register(1, "cC", None, Scoped, Service)
    \/ \E t \in Tasks : Resolve(t, 1, CtorTok("cC"), NoOptions)
    \/ CreateSession(1, None)
    \/ \E t \in Tasks, sid \in 0..MaxSessions : RunInSessionEnter(t, 1, sid, None)
    \/ \E t \in Tasks : RunInSessionReturn(t)
    \/ \E t \in Tasks, outcome \in {"resolves", "rejects"} : RunInSessionSettle(t, outcome)

SpecAmbient == InitAmbient /\ [][NextAmbient]_vars

\* Propagation: the chain A -> B -> C registered Scoped or Transient in the
\* root, two sessions, and resolves that name a session while another one is
\* ambient.
InitPropagation == InitWith({GraphChain})

NextPropagation ==
    \/ \E k \in Classes, lc \in {Scoped, Transient} :
            InOrder(1, k) /\ Register(1, k, None, lc, Service)
    \/ \E k \in Classes, sid \in 0..MaxSessions :
            Resolve(1, 1, CtorTok(k), [sessionId |-> sid, scope |-> None])
    \/ CreateSession(1, None)
    \/ \E sid \in 1..MaxSessions : RunInSessionEnter(1, 1, sid, None)
    \/ RunInSessionReturn(1)

SpecPropagation == InitPropagation /\ [][NextPropagation]_vars

\* ================================================================= claims
\* the options of a call that names session sid (0: none) and no scope
Opt(sid) == [sessionId |-> sid, scope |-> None]

\* the Registration a finished top-level call went to: the one its first
\* resolve:start event names (0: the lookup failed)
topReg(res) ==
    IF res.st.log = <<>> THEN 0 ELSE byToken[res.st.log[1].cont][res.st.log[1].token]

\* the instances constructed by the step
Fresh == (Len(heap) + 1)..Len(heap')

\* the Registration a dependency token of a service of container c goes to
depReg(c, token) == findRegistration(c, token)

\* ---------------------------------------------------------------------- C1
\* from the current state, every call that goes to a Singleton registration
\* whose slot is filled returns the instance in the slot and constructs nothing
SingletonReturnsSlot ==
    \A c \in 1..nCont, k \in Classes, sid \in 0..LifetimeSessions :
        LET res == resolve(1, c, CtorTok(k), Opt(sid), Snapshot)
            r == topReg(res)
        IN (r # 0 /\ regs[r].lifecycle = Singleton /\ regs[r].singletonInstance # 0)
            => /\ ~Failed(res)
               /\ res.val = Inst(regs[r].singletonInstance)
               /\ res.st.heap = heap
               /\ res.st.regs = regs

\* a filled slot keeps its instance until clear() of the container empties it
SlotStable ==
    \A r \in DOMAIN regs :
        regs[r].singletonInstance # 0 =>
            \/ regs'[r].singletonInstance = regs[r].singletonInstance
            \/ /\ regs'[r].singletonInstance = 0
               /\ byToken'[regs[r].cont][regs[r].token] = 0

\* a step constructs the target of a Singleton registration only while its slot
\* is empty, and at most once
SingletonOnce ==
    \A i \in Fresh :
        regs[heap'[i].reg].lifecycle = Singleton =>
            /\ regs[heap'[i].reg].singletonInstance = 0
            /\ \A j \in Fresh : heap'[j].reg = heap'[i].reg => j = i

\* every constructor argument and injected property of a fresh instance that
\* comes from a Singleton registration is the instance in that slot
SingletonInjected ==
    \A i \in Fresh :
        LET c == regs[heap'[i].reg].cont
            m == meta[heap'[i].cls]
        IN /\ \A j \in DOMAIN heap'[i].args :
                LET d == depReg(c, rawTokenOf(m.params[j]))
                IN (d # 0 /\ regs[d].lifecycle = Singleton /\ heap'[i].args[j].kind = "inst")
                    => heap'[i].args[j] = Inst(regs'[d].singletonInstance)
           /\ \A j \in DOMAIN heap'[i].props :
                LET d == depReg(c, m.props[j].token)
                IN (d # 0 /\ regs[d].lifecycle = Singleton /\ heap'[i].props[j].kind = "inst")
                    => heap'[i].props[j] = Inst(regs'[d].singletonInstance)

\* C1: between two clear() calls the target of a Singleton registration R is
\* instantiated at most once after a successful resolution: the slot keeps
\* the instance first stored in it, and every later resolve that reaches R
\* (top-level through the root or a child, nested as a constructor or property
\* dependency, with any session or none) yields that instance and constructs
\* no other.
C1_SingletonIdentity ==
    /\ []SingletonReturnsSlot
    /\ [][SlotStable /\ SingletonOnce /\ SingletonInjected]_vars

\* C1 witness: a child container exists and the one instance of a Singleton
\* registration has been injected into two different consumers
C1_Witness ==
    /\ nCont = 2
    /\ \E r \in DOMAIN regs, i, j \in DOMAIN heap :
        /\ regs[r].lifecycle = Singleton
        /\ regs[r].singletonInstance # 0
        /\ i # j
        /\ heap[i].props = <<Inst(regs[r].singletonInstance)>>
        /\ heap[j].props = <<Inst(regs[r].singletonInstance)>>

\* ---------------------------------------------------------------------- C2
\* the registrations the target of r declares as constructor or property
\* dependencies (looked up as the container looks them up)
Deps(r) ==
    {depReg(regs[r].cont, rawTokenOf(meta[regs[r].target].params[j])) :
        j \in {x \in DOMAIN meta[regs[r].target].params :
                    ~unresolvable(meta[regs[r].target].params[x])}}
    \cup {depReg(regs[r].cont, meta[regs[r].target].props[j].token) :
            j \in DOMAIN meta[regs[r].target].props}

\* r reaches a Scoped registration through at most n dependency edges whose
\* intermediate registrations are Transient or Singleton
RECURSIVE ReachesScoped(_, _)
ReachesScoped(r, n) ==
    /\ n > 0
    /\ \E d \in Deps(r) \ {0} :
        \/ regs[d].lifecycle = Scoped
        \/ ReachesScoped(d, n - 1)

\* the instances an instance holds, directly or through what it holds
RECURSIVE Holds(_, _)
Holds(i, n) ==
    IF n = 0 THEN {}
    ELSE LET direct == {v.id : v \in {x \in Range(heap[i].args) \cup Range(heap[i].props) :
                                        x.kind = "inst"}}
         IN direct \cup UNION {Holds(v, n - 1) : v \in direct}

\* C2: whenever a Singleton registration reaches a Scoped registration through
\* constructor or property dependencies, directly or through Transient or
\* Singleton registrations, resolving it fails with LifecycleViolation whether
\* a session is supplied, ambient or absent; and no instance in a singleton
\* slot holds an instance of a Scoped registration.
C2_LifetimeCapture ==
    /\ \A c \in 1..nCont, k \in Classes, sid \in 0..LifetimeSessions :
        LET res == resolve(1, c, CtorTok(k), Opt(sid), Snapshot)
            r == topReg(res)
        IN (r # 0 /\ regs[r].lifecycle = Singleton /\ ReachesScoped(r, MaxRegs))
            => res.err.kind = "LifecycleViolation"
    /\ \A r \in DOMAIN regs :
        regs[r].singletonInstance # 0 =>
            \A v \in Holds(regs[r].singletonInstance, MaxHeap) :
                regs[heap[v].reg].lifecycle # Scoped

\* ---------------------------------------------------------------------- C3
Front(p) == SubSeq(p, 1, Len(p) - 1)
Last(p) == p[Len(p)]

\* the event reports the entry into a registration whose token is already on
\* the resolution path
Reenters(e) == e.event = "resolve:start" /\ Last(e.path) \in Range(Front(e.path))

\* the call with this event log ran the target constructor of the registration
\* at the end of path p
Constructed(log, p) == \E i \in DOMAIN log : log[i].event = "construct" /\ log[i].path = p

\* r declares d as an eager constructor parameter
ParamEdge(r, d) ==
    \E j \in DOMAIN meta[regs[r].target].params :
        LET q == meta[regs[r].target].params[j]
        IN /\ ~unresolvable(q)
           /\ ~(unwrapToken(rawTokenOf(q)).usedForward /\ q.ptype = "Function")
           /\ depReg(regs[r].cont, rawTokenOf(q)) = d

\* r declares d as an eagerly injected property
PropEdge(r, d) ==
    \E j \in DOMAIN meta[regs[r].target].props :
        LET q == meta[regs[r].target].props[j]
        IN /\ ~(unwrapToken(q.token).usedForward /\ q.designType = "Function")
           /\ depReg(regs[r].cont, q.token) = d

\* the eager dependency graph from r, walked along path, leads back to a token
\* on the path within n edges
RECURSIVE EagerCycle(_, _, _)
EagerCycle(r, path, n) ==
    \/ regs[r].token \in Range(path)
    \/ /\ n > 0
       /\ \E d \in DOMAIN regs :
            /\ ParamEdge(r, d) \/ PropEdge(r, d)
            /\ EagerCycle(d, Append(path, regs[r].token), n - 1)

After(res) == [res.st EXCEPT !.log = <<>>]

\* from the current state, a successful resolve of a Scoped registration under
\* a live session S1 yields the instance every further resolve under S1 yields
\* (without constructing again), the one the ambient form of the call yields
\* when S1 is the ambient session, and never the one a resolve under another
\* live session yields
ScopedShared ==
    \A k \in Classes, s1 \in DOMAIN sessions[1] :
        LET a == resolve(1, 1, CtorTok(k), Opt(s1), Snapshot)
            again == resolve(1, 1, CtorTok(k), Opt(s1), After(a))
            r == topReg(a)
        IN (r # 0 /\ regs[r].lifecycle = Scoped /\ ~Failed(a)) =>
            /\ ~Failed(again)
            /\ again.val = a.val
            /\ again.st.heap = a.st.heap
            /\ getStore(1, 1).sessionId = s1 =>
                    resolve(1, 1, CtorTok(k), Opt(0), Snapshot).val = a.val
            /\ \A s2 \in DOMAIN sessions[1] \ {s1} :
                    LET other == resolve(1, 1, CtorTok(k), Opt(s2), After(a))
                    IN ~Failed(other) => other.val # a.val

\* the instance caches of two live sessions hold no instance in common
CachesDisjoint ==
    \A c \in 1..nCont : \A s1, s2 \in DOMAIN sessions[c] :
        s1 # s2 =>
            \A i \in DOMAIN sessions[c][s1], j \in DOMAIN sessions[c][s2] :
                sessions[c][s1][i].instance # sessions[c][s2][j].instance

\* a session that stays live keeps the instances it has cached
CacheStable ==
    \A c \in 1..nCont : \A s \in DOMAIN sessions[c] \cap DOMAIN sessions'[c] :
        \A i \in DOMAIN sessions[c][s] :
            /\ i \in DOMAIN sessions'[c][s]
            /\ sessions'[c][s][i] = sessions[c][s][i]

\* a fresh instance of a Scoped registration enters the cache of at most one
\* session, one that was live and had no instance for the token
ScopedOnce ==
    \A i \in Fresh :
        regs[heap'[i].reg].lifecycle = Scoped =>
            \A c \in 1..nCont : \A s \in DOMAIN sessions'[c] :
                (\E j \in DOMAIN sessions'[c][s] : sessions'[c][s][j].instance = Inst(i)) =>
                    /\ s \in DOMAIN sessions[c]
                    /\ ~\E j \in DOMAIN sessions[c][s] :
                            sessions[c][s][j].token = regs[heap'[i].reg].token
                    /\ \A s2 \in DOMAIN sessions'[c] \ {s} :
                            \A j \in DOMAIN sessions'[c][s2] :
                                sessions'[c][s2][j].instance # Inst(i)

IsTransient(v) == v.kind = "inst" /\ regs[heap[v.id].reg].lifecycle = Transient

\* the values instance i holds as constructor arguments and properties, each
\* tagged with the place that holds it
Held(i) ==
    {<<i, "arg", j, heap[i].args[j]>> : j \in DOMAIN heap[i].args}
    \cup {<<i, "prop", j, heap[i].props[j]>> : j \in DOMAIN heap[i].props}

\* from the current state, every successful call that goes to a Transient
\* registration returns an instance constructed by that call for that
\* registration, and calling again returns yet another one
TransientFresh ==
    \A c \in 1..nCont, k \in Classes, sid \in 0..LifetimeSessions :
        LET a == resolve(1, c, CtorTok(k), Opt(sid), Snapshot)
            again == resolve(1, c, CtorTok(k), Opt(sid), After(a))
            r == topReg(a)
        IN (r # 0 /\ regs[r].lifecycle = Transient /\ ~Failed(a)) =>
            /\ ~a.cached
            /\ a.val.kind = "inst"
            /\ a.val.id > Len(heap)
            /\ a.st.heap[a.val.id].reg = r
            /\ ~Failed(again) /\ again.val.id > Len(a.st.heap)

\* no singleton slot and no session cache holds a Transient instance, and no
\* Transient instance is held in two places
TransientUnshared ==
    /\ \A r \in DOMAIN regs :
        regs[r].singletonInstance # 0 => ~IsTransient(Inst(regs[r].singletonInstance))
    /\ \A c \in 1..nCont : \A s \in DOMAIN sessions[c] :
        \A j \in DOMAIN sessions[c][s] : ~IsTransient(sessions[c][s][j].instance)
    /\ \A x, y \in UNION {Held(i) : i \in DOMAIN heap} :
        (IsTransient(x[4]) /\ x[4] = y[4]) => x = y

\* C5: every resolution of a Transient registration, top-level or as a
\* dependency of any consumer, constructs a new instance; no two resolutions
\* return the same Transient instance, and a Transient instance is never
\* stored in a singleton slot or a session cache.
C5_TransientFreshness == TransientFresh /\ TransientUnshared

\* C5 witness: a top-level resolve and a property injection have each
\* constructed their own instance of the same Transient registration
C5_Witness ==
    \E i, j, h \in DOMAIN heap :
        /\ i # j
        /\ heap[i].reg = heap[j].reg
        /\ IsTransient(Inst(i))
        /\ heap[h].props = <<Inst(j)>>
        /\ \A x \in UNION {Held(y) : y \in DOMAIN heap} : x[4] # Inst(i)

\* ---------------------------------------------------------------------- C6
\* the names a register call may pass (None: the class name is the token)
RegisterNames == {None, "x"}

\* from the current state, register answers a bound token with the
\* DuplicateRegistration error when the target differs and with the existing
\* Registration object when it is the same
DuplicateAnswered ==
    \A c \in 1..nCont, k \in Classes, name \in RegisterNames :
        LET token == generateToken(k, name)
            res == registerResult(c, k, name)
        IN byToken[c][token] # 0 =>
            IF regs[byToken[c][token]].target # k
            THEN res.err.kind = "DuplicateRegistration"
            ELSE res.err.kind = "none" /\ res.reg = byToken[c][token]

\* a step leaves every Registration object as it is, and it either leaves both
\* lookups (and with them every listing, which reads nothing else of the
\* registry) as they are or binds one token that was unbound in its container
\* to one new Registration
RegistryKept ==
    /\ \A r \in DOMAIN regs : r \in DOMAIN regs' /\ regs'[r] = regs[r]
    /\ \/ UNCHANGED <<regs, byToken, byCtor>>
       \/ /\ Len(regs') = Len(regs) + 1
          /\ byToken[regs'[Len(regs')].cont][regs'[Len(regs')].token] = 0
          /\ byToken' = [byToken EXCEPT
                            ![regs'[Len(regs')].cont][regs'[Len(regs')].token] = Len(regs')]

\* C6: a token name maps to at most one target: register(target2, {name: X})
\* with X bound to another target fails with DuplicateRegistration and leaves
\* both lookups and list() unchanged; register of an identical (token, target)
\* pair returns the existing Registration unchanged, whatever lifecycle and
\* category the second call passes.
C6_DuplicateRegistration ==
    /\ []DuplicateAnswered
    /\ [][RegistryKept]_vars

\* C6 witness: the alias "x" is bound to a class in a container where the
\* other class is registered too, so that both kinds of second call arise
C6_Witness ==
    \E c \in 1..nCont, k1, k2 \in Classes :
        /\ k1 # k2
        /\ byToken[c]["x"] # 0
        /\ regs[byToken[c]["x"]].target = k1
        /\ byCtor[c][k2] # 0
        /\ regs[byToken[c]["x"]].lifecycle = Transient
        /\ regs[byToken[c]["x"]].type = Controller
        /\ registerResult(c, k2, "x").err.kind = "DuplicateRegistration"
        /\ registerResult(c, k1, "x").reg = byToken[c]["x"]

\* ---------------------------------------------------------------------- C9
\* C9: for every child container, every category filter (including none) and
\* every token the child registers locally, child.list(filter) holds no
\* registration for that token that comes from an ancestor; an inherited
\* registration appears only if it passes the child's inheritance filters.
C9_ListChildPrecedence ==
    \A c \in 1..nCont, type \in ServiceType \cup {None} :
        parent[c] # 0 =>
            \A i \in DOMAIN list(c, type) :
                LET r == regs[list(c, type)[i]]
                IN r.cont # c =>
                    /\ byToken[c][r.token] = 0
                    /\ canInheritRegistration(c, r)

\* ---------------------------------------------------------------------- C7
\* the nearest container, from c upwards, that registers the token (0: none)
RECURSIVE nearest(_, _)
nearest(c, token) ==
    IF findRegistration(c, token) # 0 THEN c
    ELSE IF parent[c] = 0 THEN 0
    ELSE nearest(parent[c], token)

\* every container from c up to, but not including, its ancestor P inherits
\* the token under its own filters
RECURSIVE passes(_, _, _)
passes(c, P, token) ==
    c = P \/ (canInheritToken(c, token) /\ passes(parent[c], P, token))

\* c is a child created without filters that does not register the token,
\* and P is the nearest ancestor that does
FallsBackTo(c, P, token) ==
    /\ parent[c] # 0
    /\ ~inheritance[c].defined
    /\ findRegistration(c, token) = 0
    /\ P = nearest(c, token)
    /\ P # 0

\* the call through the child stores nothing in the child
ChildUntouched(c, res) ==
    /\ res.st.sessions[c] = sessions[c]
    /\ \A r \in DOMAIN regs : regs[r].cont = c => res.st.regs[r] = regs[r]

\* through the child, a Singleton comes out of P's registration
FromSlotOf(P, token, res) ==
    (~Failed(res) /\ regs[findRegistration(P, token)].lifecycle = Singleton) =>
        res.val = Inst(res.st.regs[findRegistration(P, token)].singletonInstance)

\* C7 as amended: for a child created without filters that has no local
\* registration for T, and the nearest ancestor P that registers T: if every
\* container between the child and P inherits T under its own filters,
\* child.resolve(T) returns exactly what P.resolve(T) returns with the same
\* options (for a Singleton the instance stored in P's registration) and
\* nothing is stored in the child; if one of them does not, child.resolve(T)
\* fails with NotAvailableInContainer.
C7_HierarchyFallback ==
    \A c \in 1..nCont, P \in 1..nCont, token \in RequestMenu, sid \in 0..1 :
        FallsBackTo(c, P, token) =>
            LET res == resolve(1, c, token, Opt(sid), Snapshot)
            IN IF passes(c, P, token)
               THEN /\ res = resolve(1, P, token, Opt(sid), Snapshot)
                    /\ FromSlotOf(P, token, res)
                    /\ ChildUntouched(c, res)
               ELSE /\ res.err.kind = "NotAvailableInContainer"
                    /\ res.st = Snapshot

\* C7 witness: the unfiltered container 3 reaches the root's Singleton "x",
\* whose slot is filled, through container 2, whose filters let "x" pass
C7_Witness ==
    /\ nCont = 3
    /\ FallsBackTo(3, 1, StrTok("x"))
    /\ inheritance[2].defined
    /\ passes(3, 1, StrTok("x"))
    /\ regs[byToken[1]["x"]].lifecycle = Singleton
    /\ regs[byToken[1]["x"]].singletonInstance # 0

\* C7 as stated: for a child created without filters that has no local
\* registration for T, and the nearest ancestor P that registers T,
\* child.resolve(T) returns exactly what P.resolve(T) returns with the same
\* options and nothing is stored in the child.
C7_FallbackToNearest ==
    \A c \in 1..nCont, P \in 1..nCont, token \in RequestMenu, sid \in 0..1 :
        FallsBackTo(c, P, token) =>
            LET res == resolve(1, c, token, Opt(sid), Snapshot)
            IN /\ res = resolve(1, P, token, Opt(sid), Snapshot)
               /\ FromSlotOf(P, token, res)
               /\ ChildUntouched(c, res)

\* ---------------------------------------------------------------------- C8
\* the filter entries (their strings and classes) name registration R by its
\* token or by its class
NamedBy(strings, ctors, R) == R.token \in strings \/ R.target \in ctors

\* R is not named by an exclude entry of c and, if c has include entries, is
\* named by one of them
Allowed(c, R) ==
    /\ ~NamedBy(inheritance[c].excludeStrings, inheritance[c].excludeCtors, R)
    /\ \/ inheritance[c].includeStrings = {} /\ inheritance[c].includeCtors = {}
       \/ NamedBy(inheritance[c].includeStrings, inheritance[c].includeCtors, R)

\* C8: for a child created with include/exclude filters and a registration R
\* of its parent (alias a, class C) that the child does not register itself,
\* child.resolve falls back to the parent for R if and only if R is not named
\* by an exclude entry and (there are no include entries or R is named by an
\* include entry), whether R is requested by a or by C; otherwise the resolve
\* fails with NotAvailableInContainer.
C8_FilterPerRegistration ==
    \A c \in 1..nCont, r \in DOMAIN regs :
        (parent[c] # 0 /\ inheritance[c].defined /\ regs[r].cont = parent[c]
            /\ byToken[parent[c]][regs[r].token] = r) =>
            \A token \in {StrTok(regs[r].token), CtorTok(regs[r].target)} :
                (findRegistration(c, token) = 0 /\ findRegistration(parent[c], token) = r) =>
                    LET res == resolve(1, c, token, NoOptions, Snapshot)
                    IN IF Allowed(c, regs[r])
                       THEN res = resolve(1, parent[c], token, NoOptions, Snapshot)
                       ELSE res.err.kind = "NotAvailableInContainer"

\* --------------------------------------------------------------------- C10
\* the value the instance returned by res holds for constructor parameter j
\* (kind "arg") or injected property j (kind "prop")
Injected(res, kind, j) ==
    IF kind = "arg" THEN res.st.heap[res.val.id].args[j]
    ELSE res.st.heap[res.val.id].props[j]

\* the non-optional eager dependencies the target of r declares
Declared(r) ==
    {<<"arg", j, rawTokenOf(meta[regs[r].target].params[j])>> :
        j \in {x \in DOMAIN meta[regs[r].target].params :
                /\ ~unresolvable(meta[regs[r].target].params[x])
                /\ ~meta[regs[r].target].params[x].optional}}
    \cup {<<"prop", j, meta[regs[r].target].props[j].token>> :
            j \in {x \in DOMAIN meta[regs[r].target].props :
                    ~meta[regs[r].target].props[x].optional}}

\* C10: when a service registered in a child declares a non-optional
\* constructor or property dependency whose token is registered only in an
\* ancestor and is inheritable under the child's filters, child.resolve of the
\* service succeeds and the injected dependency is the instance the ancestor
\* resolves for that token.
C10_NestedFallback ==
    \A c \in 1..nCont, r \in DOMAIN regs :
        (parent[c] # 0 /\ regs[r].cont = c /\ byToken[c][regs[r].token] = r) =>
            \A d \in Declared(r) :
                LET up == resolve(1, parent[c], d[3], NoOptions, Snapshot)
                    res == resolve(1, c, StrTok(regs[r].token), NoOptions, After(up))
                IN (findRegistration(c, d[3]) = 0 /\ canInheritToken(c, d[3]) /\ ~Failed(up)) =>
                    /\ ~Failed(res)
                    /\ up.cached => Injected(res, d[1], d[2]) = up.val

\* ---------------------------------------------------------------------- C11
\* Shadowing: the root registers B under the alias "x" and C; a child created
\* with or without filters registers B or C under the same alias.
ShadowContainers == 2

ShadowMenu == {StrTok("x"), CtorTok("cB"), CtorTok("cC")}

InitShadow == InitWith({GraphChain})

NextShadow ==
    \/ \E lc \in {Singleton, Transient} : Register(1, "cB", "x", lc, Service)
    \/ \E lc \in {Singleton, Transient} : Register(1, "cC", None, lc, Service)
    \/ \E k \in {"cB", "cC"}, lc \in {Singleton, Transient} :
            Register(ShadowContainers, k, "x", lc, Service)
    \/ \E options \in FilterMenu : nCont < ShadowContainers /\ CreateChild(1, options)
    \/ \E c \in 1..ShadowContainers, token \in ShadowMenu : Resolve(1, c, token, NoOptions)
    \/ \E c \in 1..ShadowContainers : List(c, None)

SpecShadow == InitShadow /\ [][NextShadow]_vars

\* the child c registers n itself and its ancestor P registers n too
Shadows(c, P, n) ==
    /\ parent[c] # 0
    /\ byToken[c][n] # 0
    /\ P = nearest(parent[c], StrTok(n))
    /\ P # 0

\* the program state with the singleton slot of registration r emptied, or
\* filled with instance 1 when it was empty
Perturbed(r) ==
    [Snapshot EXCEPT !.regs[r].singletonInstance =
                        IF @ # 0 \/ heap = <<>> THEN 0 ELSE 1]

\* child.resolve(n) is answered from the child's registration with an
\* instance of the child's target
AnsweredByChild(c, n, res) ==
    /\ topReg(res) = byToken[c][n]
    /\ ~Failed(res) => /\ res.val.kind = "inst"
                       /\ res.st.heap[res.val.id].cls = regs[byToken[c][n]].target
                       /\ res.st.heap[res.val.id].reg = byToken[c][n]

\* the call neither writes the slot of registration r nor depends on it
SlotUninvolved(c, n, r, res, other) ==
    /\ res.st.regs[r] = regs[r]
    /\ other.err = res.err
    /\ other.val = res.val
    /\ other.st.heap = res.st.heap

\* what parent.list() and parent.resolve(token) compute involves the maps and
\* registrations of the root alone: no registration of a child is listed,
\* consulted or written
ParentBlind(res) ==
    /\ \A i \in DOMAIN list(1, None) : regs[list(1, None)[i]].cont = 1
    /\ \A i \in DOMAIN res.st.log : res.st.log[i].cont = 1
    /\ \A r \in DOMAIN regs : regs[r].cont # 1 => res.st.regs[r] = regs[r]
    /\ \A i \in DOMAIN res.st.heap : i > Len(heap) => regs[res.st.heap[i].reg].cont = 1

\* a register call of a child leaves everything the root resolves and lists
\* from as it was
ParentUnchanged ==
    (Len(regs') > Len(regs) /\ regs'[Len(regs')].cont # 1) =>
        /\ byToken'[1] = byToken[1]
        /\ byCtor'[1] = byCtor[1]
        /\ \A r \in DOMAIN regs : regs'[r] = regs[r]
        /\ UNCHANGED <<meta, registeredModules, parent, inheritance, sessions, sessionInfos, heap, frames,
                       promises>>

\* C11: when a child registers a token that an ancestor registers too,
\* child.resolve(token) is answered from the child's registration with an
\* instance of the child's target, the ancestor's registration for the token
\* (its singleton slot included) is neither written nor read by that call,
\* and parent.list() and parent.resolve(token) are what they were before the
\* child's register call: the call leaves the maps, registrations, sessions
\* and instances they are computed from unchanged, and they consult, list and
\* write no registration of a child.
C11_ChildShadowsParent ==
    /\ [](\A c \in 1..nCont, P \in 1..nCont, n \in Names :
            Shadows(c, P, n) =>
                /\ AnsweredByChild(c, n, resolve(1, c, StrTok(n), NoOptions, Snapshot))
                /\ SlotUninvolved(c, n, byToken[P][n],
                        resolve(1, c, StrTok(n), NoOptions, Snapshot),
                        resolve(1, c, StrTok(n), NoOptions, Perturbed(byToken[P][n]))))
    /\ [](\A token \in ShadowMenu :
            ParentBlind(resolve(1, 1, token, NoOptions, Snapshot)))
    /\ [][ParentUnchanged]_vars

\* the root and the child both register "x", both have been resolved, and
\* the root's slot holds an instance of B while the child's holds one of C
C11_Witness ==
    /\ nCont = 2
    /\ byToken[1]["x"] # 0
    /\ byToken[2]["x"] # 0
    /\ regs[byToken[1]["x"]].singletonInstance # 0
    /\ regs[byToken[2]["x"]].singletonInstance # 0
    /\ heap[regs[byToken[2]["x"]].singletonInstance].cls = "cC"
    /\ heap[regs[byToken[1]["x"]].singletonInstance].cls = "cB"

\* ---------------------------------------------------------------------- C12
\* the session a resolve call of task t with session id sid (0: none given)
\* works in: the explicit one, else the ambient one (0: none)
SessionOf(t, c, sid) == IF sid # 0 THEN sid ELSE getStore(t, c).sessionId

\* the call constructed nothing and wrote no cache
NoEffect(res) ==
    /\ res.st.heap = heap
    /\ res.st.sessions = sessions
    /\ res.st.regs = regs

\* the call failed with the given error and without effect
FailsCleanly(res, kind) ==
    /\ res.err.kind = kind
    /\ res.val = Undefined
    /\ NoEffect(res)

\* C12: resolving a Scoped registration with neither an explicit sessionId
\* nor an ambient session fails with NoActiveSession; resolving it with a
\* session id (explicit or ambient) that is not live, because it was never
\* created, was destroyed or was removed by clear, fails with
\* SessionNotFound; in both cases no instance is constructed and no slot or
\* session cache is modified.
C12_ScopedWithoutSession ==
    \A k \in Classes, sid \in 0..MaxSessions :
        (byCtor[1][k] # 0 /\ regs[byCtor[1][k]].lifecycle = Scoped) =>
            /\ SessionOf(1, 1, sid) = 0 =>
                    FailsCleanly(resolve(1, 1, CtorTok(k), Opt(sid), Snapshot),
                                 "NoActiveSession")
            /\ (SessionOf(1, 1, sid) # 0 /\ SessionOf(1, 1, sid) \notin DOMAIN sessions[1]) =>
                    FailsCleanly(resolve(1, 1, CtorTok(k), Opt(sid), Snapshot),
                                 "SessionNotFound")

\* C is registered Scoped, an instance of it was cached in session 1, the
\* session has been destroyed, and a resolve that names it fails
C12_Witness ==
    /\ byCtor[1]["cC"] # 0
    /\ regs[byCtor[1]["cC"]].lifecycle = Scoped
    /\ sessionCounter[1] = 1
    /\ sessions[1] = EmptyMap
    /\ \E i \in DOMAIN heap : heap[i].reg = byCtor[1]["cC"] /\ heap[i].disposed = 1
    /\ resolve(1, 1, CtorTok("cC"), Opt(1), Snapshot).err.kind = "SessionNotFound"
    /\ resolve(1, 1, CtorTok("cC"), Opt(0), Snapshot).err.kind = "NoActiveSession"

\* ---------------------------------------------------------------------- C13
\* the instances cached in session sid of container c
Cached(c, sid) ==
    IF sid \in DOMAIN sessions[c]
    THEN {sessions[c][sid][i].instance.id : i \in DOMAIN sessions[c][sid]}
    ELSE {}

\* the cached instances whose dispose hook returns a promise
PendingHooks(c, sid) == {i \in Cached(c, sid) : returnsPromise(meta[heap[i].cls].dispose)}

\* the teardown d ended session sid: it is not live any more and the hook of
\* every instance it cached has been called once more
Ended(c, sid, d) ==
    /\ sid \notin DOMAIN d.sessions[c]
    /\ sid \notin DOMAIN d.sessionInfos[c]
    /\ \A i \in Cached(c, sid) :
            d.heap[i].disposed = heap[i].disposed +
                                    (IF meta[heap[i].cls].dispose = "none" THEN 0 ELSE 1)

\* a step that enters a runInSession call without existingSessionId creates
\* one session, empty and not live before
CreatesOne ==
    \A t \in Tasks :
        (Len(frames'[t]) > Len(frames[t]) /\ frames'[t][Len(frames'[t])].owned) =>
            LET f == frames'[t][Len(frames'[t])]
            IN /\ f.sessionId \notin DOMAIN sessions[f.cont]
               /\ DOMAIN sessions'[f.cont] = DOMAIN sessions[f.cont] \cup {f.sessionId}
               /\ sessions'[f.cont][f.sessionId] = <<>>
               /\ \A s \in DOMAIN sessions[f.cont] :
                        sessions'[f.cont][s] = sessions[f.cont][s]

\* whenever the callback of such a call ends without throwing, the session is
\* ended before the call answers, the answer waits for every promise a hook
\* returned, and it carries the callback's own outcome
EndsBeforeResult ==
    \A t \in Tasks, outcome \in Outcomes \ {"throws"} :
        (frames[t] # <<>> /\ top(t).owned) =>
            LET d == leave(top(t), outcome, Teardown)
                result == runInSessionResult(top(t), outcome, d)
            IN /\ Ended(top(t).cont, top(t).sessionId, d)
               /\ result.outcome = outcome
               /\ result.awaiting = PendingHooks(top(t).cont, top(t).sessionId)
               /\ result.kind = "value" => (outcome = "value" /\ result.awaiting = {})

\* a pending runInSession promise belongs to a session that is not live any
\* more and waits for hooks that have been called
PendingAfterEnd ==
    \A p \in promises :
        p.op = "runInSession" =>
            /\ p.sessionId \notin DOMAIN sessions[p.cont]
            /\ p.awaiting # {}
            /\ \A i \in p.awaiting : heap[i].disposed = 1
            /\ ~p.failed

\* a pending promise settles only with the last of the hooks it waits for,
\* and keeps its outcome until then
SettlesLast ==
    \A p \in promises :
        p \notin promises' =>
            \E i \in p.awaiting :
                \/ p.awaiting = {i}
                \/ [p EXCEPT !.awaiting = @ \ {i}] \in promises'

\* C13: runInSession without existingSessionId creates exactly one new
\* session; when the callback returns a value, or returns a promise that
\* resolves or rejects, that session is removed from the live set and the
\* dispose hook of every cached instance is called before runInSession
\* answers, the answer is not available before every promise returned by a
\* hook has settled, and it carries the callback's value or rejection.
C13_SessionEndsBeforeResult ==
    /\ [](EndsBeforeResult /\ PendingAfterEnd)
    /\ [][CreatesOne /\ SettlesLast]_vars

\* a runInSession call whose callback's promise rejected is waiting for the
\* hooks of the two instances its session cached
C13_Witness ==
    \E p \in promises :
        /\ p.op = "runInSession"
        /\ p.outcome = "rejects"
        /\ Cardinality(p.awaiting) = 2
        /\ sessionCounter[p.cont] >= p.sessionId

\* ---------------------------------------------------------------------- C14
\* C14: whatever way the callback of a runInSession call without
\* existingSessionId ends (it returns, it throws, or the promise it returned
\* resolves or rejects), the session created for the call is not in the
\* live-session set once the call has finished, and an exception of the
\* callback reaches the caller.
C14_DestroyedOnEveryExit ==
    \A t \in Tasks, outcome \in Outcomes :
        (frames[t] # <<>> /\ top(t).owned
            /\ top(t).sessionId \in DOMAIN sessions[top(t).cont]) =>
            /\ top(t).sessionId \notin
                    DOMAIN leave(top(t), outcome, Teardown).sessions[top(t).cont]
            /\ outcome = "throws" =>
                    runInSessionResult(top(t), outcome,
                                       leave(top(t), outcome, Teardown)).kind = "throw"

\* ---------------------------------------------------------------------- C15
\* a task that is inside no runInSession extent
Outside == CHOOSE t \in Tasks : t # 1

\* a step that enters a runInSession call with an existingSessionId makes
\* that live session ambient and creates nothing
EntersExisting ==
    \A t \in Tasks :
        (Len(frames'[t]) > Len(frames[t]) /\ ~frames'[t][Len(frames'[t])].owned) =>
            /\ frames'[t][Len(frames'[t])].sessionId
                    \in DOMAIN sessions[frames'[t][Len(frames'[t])].cont]
            /\ UNCHANGED <<sessions, sessionInfos, sessionCounter, heap, regs, promises>>

\* a step that leaves such a call changes no session, calls no hook and
\* leaves nothing to wait for
LeavesExisting ==
    \A t \in Tasks :
        (Len(frames'[t]) < Len(frames[t]) /\ ~top(t).owned) =>
            UNCHANGED <<sessions, sessionInfos, sessionCounter, heap, regs, promises>>

\* however the callback ends, what follows it touches nothing, emits no
\* dispose event and answers with the callback's own outcome at once
ExistingUntouched ==
    \A t \in Tasks, outcome \in Outcomes :
        (frames[t] # <<>> /\ ~top(t).owned) =>
            /\ leave(top(t), outcome, Teardown) = Teardown
            /\ runInSessionResult(top(t), outcome,
                                  leave(top(t), outcome, Teardown)).outcome = outcome
            /\ runInSessionResult(top(t), outcome,
                                  leave(top(t), outcome, Teardown)).awaiting = {}

\* inside the callback a Scoped resolve without sessionId lands in the
\* existing session, and a later resolve that names the session, made outside
\* the call, returns the same instance from its cache
SameAsExplicit ==
    \A k \in Classes :
        (frames[1] # <<>> /\ ~top(1).owned /\ byCtor[1][k] # 0
            /\ regs[byCtor[1][k]].lifecycle = Scoped
            /\ top(1).sessionId \in DOMAIN sessions[1]) =>
            LET inside == resolve(1, 1, CtorTok(k), Opt(0), Snapshot)
                later == resolve(Outside, 1, CtorTok(k), Opt(top(1).sessionId),
                                 After(inside))
            IN ~Failed(inside) =>
                /\ inside.val = sessionGet(inside.st.sessions[1][top(1).sessionId],
                                           regs[byCtor[1][k]].token)
                /\ later.val = inside.val
                /\ later.cached
                /\ later.st.heap = inside.st.heap

\* C15: runInSession with an existingSessionId makes that session ambient
\* for the callback and creates no session; however the callback ends, the
\* session and the instances cached in it stay as they are (no hook is
\* called, no dispose event is emitted, nothing is awaited); a Scoped
\* instance resolved inside the callback without sessionId is the one a later
\* resolve with that explicit sessionId returns.
C15_ExistingSessionKept ==
    /\ [](ExistingUntouched /\ SameAsExplicit)
    /\ [][EntersExisting /\ LeavesExisting]_vars

\* inside a runInSession call on the existing session 1, which caches two
\* instances that have dispose hooks
C15_Witness ==
    /\ frames[1] # <<>>
    /\ ~top(1).owned
    /\ top(1).sessionId \in DOMAIN sessions[1]
    /\ Len(sessions[1][top(1).sessionId]) = 2
    /\ \A i \in DOMAIN heap : heap[i].disposed = 0 /\ meta[heap[i].cls].dispose # "none"

\* ---------------------------------------------------------------------- C16
\* the call threw `kind` before the callback was invoked: the task is in no
\* new extent and the session maps and the counter are what they were
Refused(t, c, existingSessionId, scopeName, kind) ==
    /\ runInSessionError(c, existingSessionId, scopeName).kind = kind
    /\ entered(t, c, existingSessionId, scopeName) = refused(t, unopened)
    /\ entered(t, c, existingSessionId, scopeName).frames = frames[t]
    /\ entered(t, c, existingSessionId, scopeName).sessions = sessions
    /\ entered(t, c, existingSessionId, scopeName).sessionInfos = sessionInfos
    /\ entered(t, c, existingSessionId, scopeName).sessionCounter = sessionCounter

\* C16: runInSession(callback, id, scopeName), and runInScope(scopeName,
\* callback, id) which passes its arguments on to it, fails with
\* SessionNotFound when id is not a live session, and with ScopeMismatch when
\* id is live, tagged with a scope, and scopeName is a different scope; in
\* both cases the callback is not invoked and no session is created,
\* destroyed or modified.
C16_RunInSessionRefused ==
    \A t \in Tasks, sid \in 1..MaxSessions, scopeName \in {None} \cup ScopeNames :
        /\ sid \notin DOMAIN sessions[1] =>
                Refused(t, 1, sid, scopeName, "SessionNotFound")
        /\ (sid \in DOMAIN sessions[1] /\ scopeName # None
                /\ sessionInfos[1][sid].scope # None
                /\ sessionInfos[1][sid].scope # scopeName) =>
                Refused(t, 1, sid, scopeName, "ScopeMismatch")

\* session 1 is live, tagged "http" and caches an instance; session 2 has
\* been destroyed: entering 1 as "job" and entering 2 are both refused
C16_Witness ==
    /\ sessionCounter[1] = 2
    /\ DOMAIN sessions[1] = {1}
    /\ sessionInfos[1][1].scope = "http"
    /\ sessions[1][1] # <<>>
    /\ runInSessionError(1, 1, "job").kind = "ScopeMismatch"
    /\ runInSessionError(1, 2, "http").kind = "SessionNotFound"

\* ---------------------------------------------------------------------- C17
\* a Scoped resolve of task t without sessionId works in the session of the
\* innermost runInSession extent the task is in and in no other one; outside
\* every extent there is no session to work in
UsesOwnSession(t, r, res) ==
    IF frames[t] = <<>> THEN FailsCleanly(res, "NoActiveSession")
    ELSE IF top(t).sessionId \notin DOMAIN sessions[1]
    THEN FailsCleanly(res, "SessionNotFound")
    ELSE /\ ~Failed(res)
         /\ res.val = sessionGet(res.st.sessions[1][top(t).sessionId], regs[r].token)
         /\ \A s \in DOMAIN sessions[1] :
                s # top(t).sessionId => res.st.sessions[1][s] = sessions[1][s]

\* a step enters or leaves one extent of one task: the extents of every other
\* task, and the outer extents of that task, are what they were
OneExtentAtATime ==
    \A t \in Tasks :
        frames'[t] # frames[t] =>
            /\ \A u \in Tasks : u # t => frames'[u] = frames[u]
            /\ \/ (Len(frames'[t]) = Len(frames[t]) + 1
                        /\ SubSeq(frames'[t], 1, Len(frames[t])) = frames[t])
               \/ (Len(frames'[t]) = Len(frames[t]) - 1
                        /\ SubSeq(frames[t], 1, Len(frames'[t])) = frames'[t])

\* C17: with interleaved and nested runInSession calls on one container, a
\* Scoped resolve without sessionId made by a task inside the extent of a
\* callback works in the session of that (innermost) callback and never in
\* another one; the ambient session of a task changes only when the task
\* itself enters or leaves an extent, so it is the same before and after the
\* steps other tasks take while it is suspended; a task outside every extent
\* has no ambient session.
C17_AmbientIsolation ==
    /\ [](\A t \in Tasks :
            (byCtor[1]["cC"] # 0 =>
                UsesOwnSession(t, byCtor[1]["cC"],
                               resolve(t, 1, CtorTok("cC"), NoOptions, Snapshot)))
            /\ getStore(t, 1).sessionId = (IF frames[t] = <<>> THEN 0 ELSE top(t).sessionId))
    /\ [][OneExtentAtATime]_vars

\* task 1 is in a nested extent and task 2 in an extent of another session,
\* and both sessions cache their own instance of C
C17_Witness ==
    /\ Len(frames[1]) = 2
    /\ Len(frames[2]) = 1
    /\ top(1).sessionId # top(2).sessionId
    /\ top(1).sessionId \in DOMAIN sessions[1]
    /\ top(2).sessionId \in DOMAIN sessions[1]
    /\ sessions[1][top(1).sessionId] # <<>>
    /\ sessions[1][top(2).sessionId] # <<>>
    /\ sessions[1][top(1).sessionId] # sessions[1][top(2).sessionId]

\* ---------------------------------------------------------------------- C18
\* what a direct resolve of the token under session S returns after the call
\* res, made by a task outside every extent
Direct(token, S, res) == resolve(Outside, 1, token, Opt(S), After(res))

\* the value v injected for a dependency token is, when the token goes to a
\* Scoped registration, the instance a direct resolve under S returns from
\* the cache of S
SharedWithSession(token, v, S, res) ==
    (depReg(1, token) # 0 /\ regs[depReg(1, token)].lifecycle = Scoped) =>
        /\ v.kind = "inst"
        /\ Direct(token, S, res).val = v
        /\ Direct(token, S, res).cached
        /\ Direct(token, S, res).st.heap = res.st.heap

\* every instance the call res constructed holds, for each of its Scoped
\* dependencies, the instance of session S
PropagatesTo(S, res) ==
    \A i \in (Len(heap) + 1)..Len(res.st.heap) :
        /\ \A j \in DOMAIN res.st.heap[i].args :
                SharedWithSession(rawTokenOf(meta[res.st.heap[i].cls].params[j]),
                                  res.st.heap[i].args[j], S, res)
        /\ \A j \in DOMAIN res.st.heap[i].props :
                SharedWithSession(meta[res.st.heap[i].cls].props[j].token,
                                  res.st.heap[i].props[j], S, res)

\* C18: when a consumer is resolved under a session S, given by sessionId or
\* ambient through runInSession (an explicit sessionId wins over the ambient
\* one), every Scoped dependency injected by constructor or by property into
\* any instance constructed by that call, at any depth, is the identical
\* instance a direct resolve of the dependency under S returns.
C18_SessionPropagation ==
    \A k \in Classes, sid \in 0..MaxSessions :
        (SessionOf(1, 1, sid) # 0
            /\ ~Failed(resolve(1, 1, CtorTok(k), Opt(sid), Snapshot))) =>
            PropagatesTo(SessionOf(1, 1, sid),
                         resolve(1, 1, CtorTok(k), Opt(sid), Snapshot))

\* session 2 caches an A that holds the B of session 2, which holds the C of
\* session 2, resolved by naming session 2 while session 1 was ambient
C18_Witness ==
    /\ frames[1] # <<>>
    /\ top(1).sessionId = 1
    /\ 2 \in DOMAIN sessions[1]
    /\ Len(sessions[1][2]) = 3
    /\ byCtor[1]["cA"] # 0
    /\ regs[byCtor[1]["cA"]].lifecycle = Scoped
    /\ \E i \in DOMAIN heap :
            /\ heap[i].cls = "cA"
            /\ heap[i].args[1] = sessionGet(sessions[1][2], "B")
            /\ heap[heap[i].args[1].id].props[1] = sessionGet(sessions[1][2], "C")

\* ---------------------------------------------------------------------- C19
\* the instances held by a live session cache or by a singleton slot
Live ==
    (UNION {Cached(c, sid) : c \in 1..nCont, sid \in 0..MaxSessions})
        \cup ({regs[r].singletonInstance : r \in DOMAIN regs} \ {0})

\* the number of dispose events in a log
DisposeEvents(log) == Cardinality({i \in DOMAIN log : log[i].event = "dispose"})

\* destroySession on any live session calls the hook of every cached instance
\* and emits its dispose event, then forgets the session, and waits for
\* exactly the promises the hooks returned
DisposesAll ==
    \A sid \in DOMAIN sessions[1] :
        LET d == destroySession(1, sid, Teardown)
        IN /\ Ended(1, sid, d)
           /\ DisposeEvents(d.log) = Len(sessions[1][sid])
           /\ d.asyncDisposals = PendingHooks(1, sid)
           /\ \A i \in DOMAIN heap : i \notin Cached(1, sid) => d.heap[i] = heap[i]

\* no hook is called a second time, and an instance whose hook was called is
\* in no cache and no slot any more
OnceOnly ==
    \A i \in DOMAIN heap :
        /\ heap[i].disposed <= 1
        /\ heap[i].disposed = 1 => i \notin Live

\* a pending teardown promise waits only for hooks that have been called
AwaitsCalled ==
    \A p \in promises :
        /\ p.awaiting # {}
        /\ \A i \in p.awaiting :
                heap[i].disposed = 1 /\ returnsPromise(meta[heap[i].cls].dispose)

\* a step that ends a session whose hooks returned promises leaves a new
\* pending promise that waits for all of them
AwaitsAll ==
    \A sid \in DOMAIN sessions[1] :
        (sid \notin DOMAIN sessions'[1] /\ PendingHooks(1, sid) # {}) =>
            \E p \in promises' \ promises : PendingHooks(1, sid) \subseteq p.awaiting

\* a promise that waits for more than one hook is still pending after any step
StaysPending ==
    \A p \in promises :
        Cardinality(p.awaiting) > 1 =>
            \E q \in promises' :
                /\ q.op = p.op
                /\ q.sessionId = p.sessionId
                /\ q.awaiting \subseteq p.awaiting
                /\ Cardinality(q.awaiting) >= Cardinality(p.awaiting) - 1

\* C19: destroySession(S) calls the dispose hook of every instance cached in
\* S exactly once, all of them before it waits for anything, and when hooks
\* returned promises the promise answered by destroySession (or by the
\* runInSession or clear call that ended the session) stays pending until
\* every one of them has settled.
C19_DisposalAtSessionEnd ==
    /\ [](DisposesAll /\ OnceOnly /\ AwaitsCalled)
    /\ [][AwaitsAll /\ StaysPending]_vars

\* destroySession(1) has called the hooks of the two instances session 1
\* cached and its promise is waiting for both
C19_Witness ==
    \E p \in promises :
        /\ p.op = "destroySession"
        /\ p.sessionId = 1
        /\ Cardinality(p.awaiting) = 2
        /\ \A i \in p.awaiting : heap[i].disposed = 1
        /\ 1 \notin DOMAIN sessions[1]

\* ---------------------------------------------------------------------- C20
\* the teardown d ran to its end: no exception left it, and the hook of every
\* instance that was cached in a session of S or held by a slot of R was called
RanThrough(S, R, d) ==
    /\ ~d.thrown
    /\ \A sid \in S : Ended(1, sid, d)
    /\ \A r \in R :
            /\ d.regs[r].singletonInstance = 0
            /\ (regs[r].singletonInstance # 0
                    /\ meta[regs[r].target].dispose # "none") =>
                    d.heap[regs[r].singletonInstance].disposed =
                        heap[regs[r].singletonInstance].disposed + 1

\* the registrations clear() walks over
Local(c) == {r \in DOMAIN regs : byToken[c][regs[r].token] = r}

\* C20: whatever the dispose hooks do (return, throw, return a promise that
\* resolves or rejects), destroySession, clear and the end of a runInSession
\* call that created its session call the hook of every cached instance,
\* remove the session from the live set, empty the singleton slots (clear),
\* and neither throw nor answer with a promise that rejects.
C20_DisposalFailuresContained ==
    /\ \A sid \in DOMAIN sessions[1] :
            RanThrough({sid}, {}, destroySession(1, sid, Teardown))
    /\ RanThrough(DOMAIN sessions[1], Local(1), clear(1, Teardown))
    /\ \A t \in Tasks, outcome \in Outcomes \ {"throws"} :
            (frames[t] # <<>> /\ top(t).owned) =>
                RanThrough({top(t).sessionId}, {}, leave(top(t), outcome, Teardown))
    /\ \A p \in promises : ~p.failed

\* a session that cached a C whose hook throws and a B with a hook has been
\* torn down: both hooks have been called and the session is gone
C20_Witness ==
    /\ meta["cC"].dispose = "throws"
    /\ sessionCounter[1] = 1
    /\ sessions[1] = EmptyMap
    /\ \E i, j \in DOMAIN heap :
            /\ heap[i].cls = "cC" /\ heap[i].disposed = 1
            /\ heap[j].cls = "cB" /\ heap[j].disposed = 1
            /\ heap[j].props[1] = Inst(i)
            /\ regs[heap[j].reg].lifecycle = Scoped
            /\ regs[heap[i].reg].lifecycle = Scoped

\* ---------------------------------------------------------------------- C21
\* the instances container c holds: in its live session caches and in the
\* singleton slots of its registrations
HeldBy(c) ==
    (UNION {Cached(c, sid) : sid \in DOMAIN sessions[c]})
        \cup ({regs[r].singletonInstance : r \in Local(c)} \ {0})

\* clear() ends every live session, calls the hook of every instance a session
\* cached or a slot holds once more, empties the slots, emits one dispose
\* event per instance and waits for exactly the promises the hooks returned
ClearsAll ==
    LET d == clear(1, Teardown)
    IN /\ \A sid \in DOMAIN sessions[1] : Ended(1, sid, d)
       /\ \A r \in Local(1) : d.regs[r].singletonInstance = 0
       /\ \A i \in DOMAIN heap :
            d.heap[i].disposed =
                heap[i].disposed +
                    (IF i \in HeldBy(1) /\ meta[heap[i].cls].dispose # "none" THEN 1 ELSE 0)
       /\ DisposeEvents(d.log) = Cardinality(HeldBy(1))
       /\ d.asyncDisposals =
            {i \in HeldBy(1) : returnsPromise(meta[heap[i].cls].dispose)}

\* a step that removes a registration from the index of the root (only
\* clear() does) leaves the root without registrations, sessions and held
\* instances, restarts its session counter, and answers with a promise that
\* waits for every hook that returned one
EmptiedByClear ==
    (\E n \in Names : byToken[1][n] # 0 /\ byToken'[1][n] = 0) =>
        /\ \A n \in Names : byToken'[1][n] = 0
        /\ \A k \in Classes : byCtor'[1][k] = 0
        /\ sessions'[1] = EmptyMap
        /\ sessionInfos'[1] = EmptyMap
        /\ sessionCounter'[1] = 0
        /\ \A r \in Local(1) : regs'[r].singletonInstance = 0
        /\ heap' = clear(1, Teardown).heap
        /\ LET pending == {i \in HeldBy(1) : returnsPromise(meta[heap[i].cls].dispose)}
           IN IF pending = {} THEN promises' = promises
              ELSE \E p \in promises' \ promises :
                        p.op = "clear" /\ p.awaiting = pending

Thenable(i) == meta[heap[i].cls].dispose \in {"async", "rejects"}

\* destroySession and clear have a promise to wait for exactly when a hook
\* they call returns a thenable, and a runInSession call whose callback
\* returned a plain value answers with that value unless the teardown of the
\* session it created called such a hook, and then with a promise of it
PlainUnlessPending ==
    /\ \A sid \in DOMAIN sessions[1] :
            (destroySession(1, sid, Teardown).asyncDisposals # {}) <=>
                (\E i \in Cached(1, sid) : Thenable(i))
    /\ (clear(1, Teardown).asyncDisposals # {}) <=> (\E i \in HeldBy(1) : Thenable(i))
    /\ \A t \in Tasks :
            frames[t] # <<>> =>
                LET r == runInSessionResult(top(t), "value", leave(top(t), "value", Teardown))
                IN /\ r.outcome = "value"
                   /\ r.kind = IF top(t).owned
                                    /\ \E i \in Cached(top(t).cont, top(t).sessionId) :
                                            Thenable(i)
                                THEN "promise" ELSE "value"

\* a promise that was not pending before the step
NewPromise == \E p \in promises' : \E i \in p.awaiting : \A q \in promises : i \notin q.awaiting

\* a step hands a new promise to its caller exactly when it called a hook
\* that returns a thenable
PromiseIffPending ==
    NewPromise <=> (\E i \in DOMAIN heap : heap'[i].disposed > heap[i].disposed /\ Thenable(i))

\* C22: destroySession and clear return a promise if and only if at least one
\* dispose hook they invoked returned a thenable, and otherwise complete
\* synchronously; runInSession with a synchronous callback returns the
\* callback's plain value when no asynchronous disposal occurred and a promise
\* resolving to that value when one did.
C22_SyncUnlessAsyncDisposal ==
    /\ []PlainUnlessPending
    /\ [][PromiseIffPending]_vars

\* a runInSession call whose callback returned a value has answered with a
\* promise of it because a hook returned a promise, after another teardown
\* that called only a synchronous hook ended without one
C22_Witness ==
    /\ \E p \in promises : p.op = "runInSession" /\ p.outcome = "value"
    /\ \E i \in DOMAIN heap :
            /\ heap[i].disposed = 1
            /\ meta[heap[i].cls].dispose = "sync"
            /\ \A p \in promises : i \notin p.awaiting

\* ---------------------------------------------------------------------- C23
\* Optional dependencies: A, B and C are registered one by one in the root, C
\* under its class name or as "x", and resolved in between.
InitOptional == InitWith({GraphAbsent})

NextOptional ==
    \/ \E k \in {"cA", "cB"}, lc \in {Singleton, Transient} :
            Register(1, k, None, lc, Service)
    \/ \E name \in {None, "x"}, lc \in {Singleton, Transient} :
            Register(1, "cC", name, lc, Service)
    \/ \E token \in {CtorTok(k) : k \in Classes} \cup {StrTok("x")} :
            Resolve(1, 1, token, NoOptions)

SpecOptional == InitOptional /\ [][NextOptional]_vars

\* what a dependency declared optional as `optional`, not usable by type as
\* `bare` and with the given token must have become in the new instance:
\* undefined when nothing is registered for it, an instance of its
\* registration otherwise
InjectedAsDeclared(res, value, optional, bare, token) ==
    IF bare \/ findRegistration(1, token) = 0
    THEN optional /\ value = Undefined
    ELSE /\ value.kind = "inst"
         /\ res.st.heap[value.id].reg = findRegistration(1, token)

\* a call that built a new instance of the target of r gave it every
\* dependency as declared
BuiltAsDeclared(r, res) ==
    /\ \A j \in DOMAIN meta[regs[r].target].params :
            InjectedAsDeclared(res, Injected(res, "arg", j),
                               meta[regs[r].target].params[j].optional,
                               unresolvable(meta[regs[r].target].params[j]),
                               rawTokenOf(meta[regs[r].target].params[j]))
    /\ \A j \in DOMAIN meta[regs[r].target].props :
            InjectedAsDeclared(res, Injected(res, "prop", j),
                               meta[regs[r].target].props[j].optional, FALSE,
                               meta[regs[r].target].props[j].token)

\* C23: an optional constructor or property dependency whose token has no
\* registration resolves to undefined instead of failing, the other
\* dependencies of the same consumer are still resolved and injected, and
\* once the token has been registered a new resolution of a consumer that is
\* not cached receives an instance.
C23_OptionalAbsence ==
    \A r \in Local(1) :
        LET res == resolve(1, 1, StrTok(regs[r].token), NoOptions, Snapshot)
        IN /\ (\A d \in Declared(r) : findRegistration(1, d[3]) # 0) => ~Failed(res)
           /\ (~Failed(res) /\ ~res.cached) => BuiltAsDeclared(r, res)

\* an A was built with undefined for its optional C and with a B whose
\* optional property is undefined; C has been registered since, and a new
\* resolve of A receives an instance of C
C23_Witness ==
    /\ byCtor[1]["cC"] # 0
    /\ \E i \in DOMAIN heap :
            /\ heap[i].cls = "cA"
            /\ heap[i].args[1] = Undefined
            /\ heap[i].args[2].kind = "inst"
            /\ heap[heap[i].args[2].id].props = <<Undefined>>
    /\ LET res == resolve(1, 1, CtorTok("cA"), NoOptions, Snapshot)
       IN /\ ~Failed(res)
          /\ ~res.cached
          /\ Injected(res, "arg", 1).kind = "inst"
          /\ res.st.heap[Injected(res, "arg", 1).id].cls = "cC"

\* ---------------------------------------------------------------------- C24
\* Lazy providers: A and B take each other lazily and C takes B eagerly and A
\* lazily; they are resolved by task 1 with or without a session id, and the
\* closures the instances hold are called later by either task, inside or
\* outside a runInSession call of task 2.
InitLazy == InitWith({GraphLazy})

NextLazy ==
    \/ \E k \in {"cA", "cB"}, lc \in Lifecycle :
            InOrder(1, k) /\ Register(1, k, None, lc, Service)
    \/ (InOrder(1, "cC") /\ Register(1, "cC", None, Transient, Service))
    \/ \E k \in Classes, sid \in 0..MaxSessions : Resolve(1, 1, CtorTok(k), Opt(sid))
    \/ CreateSession(1, None)
    \/ \E sid \in 1..MaxSessions : frames[2] = <<>> /\ RunInSessionEnter(2, 1, sid, None)
    \/ RunInSessionReturn(2)
    \/ DestroySession(1, 1)
    \/ \E t \in Tasks, i \in 1..MaxHeap, j \in 1..2 : InvokeThunk(t, i, j)

SpecLazy == InitLazy /\ [][NextLazy]_vars

\* parameter p is a lazy forwardRef: a deferred token with a callable type
IsLazy(p) == p.hasOverride /\ isForwardRef(p.inject) /\ p.ptype = "Function"

\* a call that built a new instance of the target of r gave it, for every lazy
\* parameter, a closure over the registration of the token and the session of
\* the call, and neither started a resolution of that token nor built an
\* instance of it
LazyDeferred(r, sid, res) ==
    \A j \in DOMAIN meta[regs[r].target].params :
        LET p == meta[regs[r].target].params[j]
            dep == findRegistration(1, p.inject)
        IN (IsLazy(p) /\ dep # 0) =>
            /\ Injected(res, "arg", j).kind = "thunk"
            /\ Injected(res, "arg", j).reg = dep
            /\ Injected(res, "arg", j).sid = sid
            /\ \A e \in DOMAIN res.st.log : res.st.log[e].token # regs[dep].token
            /\ \A i \in (Len(heap) + 1)..Len(res.st.heap) : res.st.heap[i].reg # dep

ConsumersGetThunks ==
    \A r \in Local(1), sid \in 0..MaxSessions :
        LET res == resolve(1, 1, StrTok(regs[r].token), Opt(sid), Snapshot)
        IN (~Failed(res) /\ ~res.cached) => LazyDeferred(r, sid, res)

\* the closures held by the instances
Thunks ==
    {v \in UNION {Range(heap[i].args) : i \in DOMAIN heap} : v.kind = "thunk"}

\* calling the closure th from task t, whatever session that task is in:
\* a Singleton gives what container.resolve gives, a Transient a new
\* instance, and a Scoped one the instance of the session captured when the
\* closure was made (which the call caches there), unless that session is
\* gone or the holder is a Singleton
ThunkResolves(t, th, via) ==
    CASE regs[th.reg].lifecycle = Singleton ->
            /\ ~Failed(via)
            /\ via.val = resolve(t, 1, StrTok(regs[th.reg].token), NoOptions, Snapshot).val
            /\ via.st.regs[th.reg].singletonInstance = via.val.id
      [] regs[th.reg].lifecycle = Transient ->
            /\ ~Failed(via)
            /\ via.val.id = Len(heap) + 1
      [] OTHER ->
            IF th.plc = Singleton THEN via.err.kind = "LifecycleViolation"
            ELSE IF th.sid = 0 THEN TRUE
            ELSE IF th.sid \notin DOMAIN sessions[1] THEN via.err.kind = "SessionNotFound"
            ELSE /\ ~Failed(via)
                 /\ via.val = sessionGet(via.st.sessions[1][th.sid], regs[th.reg].token)
                 /\ sessionHas(sessions[1][th.sid], regs[th.reg].token) =>
                        via.val = sessionGet(sessions[1][th.sid], regs[th.reg].token)

ThunksResolve ==
    \A th \in Thunks, t \in Tasks : ThunkResolves(t, th, invoke(t, th, Snapshot))

\* two Singletons that take each other lazily both resolve
MutualLazy ==
    \A r, q \in Local(1) :
        (regs[r].target = "cA" /\ regs[q].target = "cB"
            /\ regs[r].lifecycle = Singleton /\ regs[q].lifecycle = Singleton) =>
            /\ ~Failed(resolve(1, 1, CtorTok("cA"), NoOptions, Snapshot))
            /\ ~Failed(resolve(1, 1, CtorTok("cB"), NoOptions, Snapshot))

InitOrder == InitWith({GraphOrder})

NextOrder ==
    \/ \E k \in {"cA", "cB"}, lc \in {Singleton, Transient} :
            Register(1, k, None, lc, Service)
    \/ \E name \in {None, "x"}, lc \in {Singleton, Transient} :
            Register(1, "cC", name, lc, Service)
    \/ \E k \in Classes : Resolve(1, 1, CtorTok(k), NoOptions)

SpecOrder == InitOrder /\ [][NextOrder]_vars

\* the resolve:start events of a log
Starts(log) == {s \in DOMAIN log : log[s].event = "resolve:start"}

\* the events that close the bracket opened by the resolve:start at s: the
\* resolve:success and resolve:error events after s with its token and path,
\* up to the next resolve:start with that path
Closings(log, s) ==
    {e \in DOMAIN log :
        /\ e > s
        /\ log[e].event \in {"resolve:success", "resolve:error"}
        /\ log[e].token = log[s].token
        /\ log[e].path = log[s].path
        /\ \A k \in Starts(log) : (s < k /\ k < e) => log[k].path # log[s].path}

\* the event that closes the bracket opened at s
Close(log, s) == CHOOSE e \in Closings(log, s) : \A x \in Closings(log, s) : e <= x

\* the brackets of the direct dependencies of the bracket opened at s, in the
\* order they were opened
Kids(log, s) ==
    SortedSeq({k \in Starts(log) :
                /\ s < k /\ k < Close(log, s)
                /\ Len(log[k].path) = Len(log[s].path) + 1})

\* the events of the given kind inside the bracket opened at s that carry its path
Own(log, s, kind) ==
    {x \in DOMAIN log :
        /\ s < x /\ x < Close(log, s)
        /\ log[x].event = kind
        /\ log[x].path = log[s].path}

\* the tokens the target k has its dependencies resolved for: the constructor
\* parameters from left to right, then the properties as declared
Wanted(k) ==
    [j \in 1..(Len(meta[k].params) + Len(meta[k].props)) |->
        IF j <= Len(meta[k].params) THEN rawTokenOf(meta[k].params[j])
        ELSE meta[k].props[j - Len(meta[k].params)].token]

\* the bracket opened at s built an instance in the declared order
BuiltInOrder(log, s) ==
    LET kids == Kids(log, s)
        k == log[s].target
        np == Len(meta[k].params)
    IN /\ Len(kids) = Len(Wanted(k))
       /\ \A j \in DOMAIN kids :
            /\ log[kids[j]].token = regs[findRegistration(1, Wanted(k)[j])].token
            /\ log[kids[j]].path = Append(log[s].path, log[kids[j]].token)
            /\ j < Len(kids) => Close(log, kids[j]) < kids[j + 1]
       /\ \E x \in Own(log, s, "construct") :
            /\ Own(log, s, "construct") = {x}
            /\ \A j \in DOMAIN kids :
                    IF j <= np THEN Close(log, kids[j]) < x ELSE x < kids[j]
       /\ Own(log, s, "instantiate") = {Close(log, s) - 1}

\* the bracket opened at s ended with a new instance
BuiltNew(log, s) ==
    log[Close(log, s)].event = "resolve:success" /\ ~log[Close(log, s)].cached

\* a singleton slot is filled only by a bracket of its registration that ended
\* with a new instance: a bracket that failed after its constructor ran has
\* stored nothing
StoredLast(res) ==
    \A q \in DOMAIN regs :
        res.st.regs[q].singletonInstance # regs[q].singletonInstance =>
            \E s \in Starts(res.st.log) :
                /\ res.st.log[s].token = regs[q].token
                /\ BuiltNew(res.st.log, s)
                /\ res.st.regs[q].singletonInstance > Len(heap)
                /\ res.st.heap[res.st.regs[q].singletonInstance].props # <<>> \/
                        meta[regs[q].target].props = <<>>

\* C25: within one resolve call the constructor dependencies of a target are
\* resolved from left to right, each one completely before the next is
\* started; the constructor runs after all of them; the property dependencies
\* are resolved after the constructor returned, in declaration order; the
\* instantiate event of the target and the write to its cache come last.
C25_InstantiationOrder ==
    \A r \in Local(1) :
        LET res == resolve(1, 1, StrTok(regs[r].token), NoOptions, Snapshot)
        IN /\ \A s \in Starts(res.st.log) :
                BuiltNew(res.st.log, s) => BuiltInOrder(res.st.log, s)
           /\ StoredLast(res)

\* an A has been built from a B that holds a C, a C, and its two properties
C25_Witness ==
    \E a \in DOMAIN heap :
        /\ heap[a].cls = "cA"
        /\ heap[a].args[1].kind = "inst" /\ heap[heap[a].args[1].id].cls = "cB"
        /\ heap[a].args[2] = heap[heap[a].args[1].id].args[1]
        /\ heap[a].props = <<heap[a].args[2], heap[a].args[2]>>
        /\ heap[a].args[1].id < a

\* ---------------------------------------------------------------------- C26
\* the resolve:success and resolve:error events of a log
Ends(log) == {e \in DOMAIN log : log[e].event \in {"resolve:success", "resolve:error"}}

\* path p is path q with one more token
Extends(p, q) == Len(p) = Len(q) + 1 /\ SubSeq(p, 1, Len(q)) = q

\* every resolve:start has exactly one closing event with its token and path,
\* and every closing event closes one resolve:start
Paired(log) ==
    /\ \A s \in Starts(log) : Cardinality(Closings(log, s)) = 1
    /\ \A e \in Ends(log) :
            Cardinality({s \in Starts(log) : e \in Closings(log, s)}) = 1

\* the bracket of a dependency lies strictly inside the bracket of its
\* consumer, and brackets do not overlap otherwise
Nested(log) ==
    /\ \A k \in Starts(log) :
            Len(log[k].path) > 1 =>
                \E s \in Starts(log) :
                    /\ Extends(log[k].path, log[s].path)
                    /\ s < k /\ Close(log, k) < Close(log, s)
    /\ \A s, k \in Starts(log) :
            (s < k /\ k < Close(log, s)) => Close(log, k) < Close(log, s)

\* resolve:success says cached = false exactly when an instantiate event
\* with its token and path lies inside its bracket
CachedFlag(log) ==
    \A s \in Starts(log) :
        log[Close(log, s)].event = "resolve:success" =>
            (~log[Close(log, s)].cached <=>
                \E x \in Own(log, s, "instantiate") : log[x].token = log[s].token)

\* C26: in the events of a resolve call, every resolve:start is followed by
\* exactly one closing event (resolve:success or resolve:error) with the same
\* token and path, the brackets of dependencies lie strictly inside the
\* bracket of their consumer, and resolve:success carries cached = false
\* exactly when an instantiate event for that token and path was emitted
\* inside its bracket.
C26_EventBracketing ==
    \A k \in Classes, sid \in 0..1 :
        LET log == resolve(1, 1, CtorTok(k), Opt(sid), Snapshot).st.log
        IN Paired(log) /\ Nested(log) /\ CachedFlag(log)

\* C is in its singleton slot, and a resolve of A opens four brackets: C is
\* answered from the slot inside the bracket of A, B fails inside it on the
\* cycle, and A fails last
C26_Witness ==
    /\ byCtor[1]["cC"] # 0
    /\ regs[byCtor[1]["cC"]].singletonInstance # 0
    /\ LET res == resolve(1, 1, CtorTok("cA"), NoOptions, Snapshot)
       IN /\ res.err.kind = "CircularDependency"
          /\ Cardinality(Starts(res.st.log)) = 4
          /\ \E e \in Ends(res.st.log) :
                res.st.log[e].event = "resolve:success" /\ res.st.log[e].cached
          /\ res.st.log[Len(res.st.log)].event = "resolve:error"
          /\ res.st.log[Len(res.st.log)].path = <<"A">>

\* ---------------------------------------------------------------------- C27
\* the call that ended with res emitted a resolve:error event that carries
\* the error it failed with
ErrorObserved(res) ==
    \E e \in DOMAIN res.st.log :
        res.st.log[e].event = "resolve:error" /\ res.st.log[e].error = res.err

\* C27: whenever resolve fails, with whatever error, at least one
\* resolve:error event carrying that error has been emitted before the error
\* reaches the caller.
C27_FailureObservable ==
    \A k \in Classes, sid \in 0..1 :
        LET res == resolve(1, 1, CtorTok(k), Opt(sid), Snapshot)
        IN Failed(res) => ErrorObserved(res)

\* ---------------------------------------------------------------------- C28
\* Events: the root and a child created with or without a filter register C
\* as Singleton or Transient and resolve it; listeners that return, unsubscribe
\* themselves or another listener, or subscribe one are subscribed to and
\* unsubscribed from resolve:start on both.
EventContainers == 2
MaxSubscriptions == 2

\* the number of subscriptions in all listener sets
Subscriptions ==
    LET n(c) == Len(listeners[c]["resolve:start"]) + Len(listeners[c]["dispose"])
    IN n(1) + n(2) + n(3)

InitEvents == InitWith({GraphChain})

NextEvents ==
    \/ (nCont < EventContainers
            /\ \E options \in {NoChildOptions, ChildOptions({}, {CtorTok("cC")})} :
                    CreateChild(1, options))
    \/ \E c \in 1..EventContainers, lc \in {Singleton, Transient} :
            Register(c, "cC", None, lc, Service)
    \/ \E c \in 1..EventContainers : Resolve(1, c, CtorTok("cC"), NoOptions)
    \/ \E c \in 1..EventContainers, l \in Listeners :
            /\ Subscriptions < MaxSubscriptions
            /\ ListenerMenu[l].does # "throws"
            /\ On(c, "resolve:start", l)
    \/ \E c \in 1..EventContainers, l \in Listeners :
            l \in Range(listeners[c]["resolve:start"]) /\ Off(c, "resolve:start", l)

SpecEvents == InitEvents /\ [][NextEvents]_vars

\* container c and its ancestors, nearest first
RECURSIVE Chain(_)
Chain(c) == IF c = 0 THEN <<>> ELSE <<c>> \o Chain(parent[c])

\* every listener an emission of ev by container c can reach only returns
Plain(c, ev) ==
    \A a \in Range(Chain(c)) : \A l \in Range(listeners[a][ev]) :
        ListenerMenu[l].does = "returns"

\* the calls an emission of e by the containers of `chain` owes: every
\* listener of every container once, with e, in the order of the chain
RECURSIVE Owed(_, _)
Owed(chain, e) ==
    IF chain = <<>> THEN <<>>
    ELSE [i \in DOMAIN listeners[Head(chain)][e.event] |->
            [listener |-> listeners[Head(chain)][e.event][i], at |-> Head(chain),
             payload |-> e]]
         \o Owed(Tail(chain), e)

\* an event with the given name
Sample(c, ev) == [DisposeEvent(c, "C", 0, 0) EXCEPT !.event = ev]

\* an emission by any container calls the listeners of the container and of
\* every ancestor once each, nearest container first
Cascades ==
    \A c \in 1..nCont, ev \in ListenEvents :
        Plain(c, ev) => emitTo(c, Sample(c, ev), Bus).heard = Owed(Chain(c), Sample(c, ev))

\* the events of the given name in a log
Named(log, ev) == SelectSeqBy(log, LAMBDA e : e.event = ev)

\* the calls of listener l of container a in a sequence of calls
CallsOf(calls, l, a) == SelectSeqBy(calls, LAMBDA x : x.listener = l /\ x.at = a)

\* a listener of the root is called once for every resolve:start event of a
\* resolve call on any container, with the payload of the event
RootObserves ==
    \A c \in 1..nCont :
        LET res == resolve(1, c, CtorTok("cC"), NoOptions, Snapshot)
        IN (\A a \in 1..nCont : Plain(a, "resolve:start")) =>
            \A l \in Range(listeners[1]["resolve:start"]) :
                [i \in DOMAIN CallsOf(told(res.st.log, Bus).heard, l, 1) |->
                    CallsOf(told(res.st.log, Bus).heard, l, 1)[i].payload]
                    = Named(res.st.log, "resolve:start")

CallsAt(calls, a) == SelectSeqBy(calls, LAMBDA x : x.at = a)

\* the bus after a first emission, ready for the next one
Later(b) == [b EXCEPT !.heard = <<>>]

\* C29 (as stated): if listeners unsubscribe themselves or another listener
\* of the event, or subscribe one, during an emission, every listener that was
\* subscribed when the emission started is still invoked exactly once for it
\* and a listener subscribed during the emission is not invoked for it.
C29_StableSnapshot ==
    \A c \in 1..nCont :
        emitTo(c, Sample(c, "resolve:start"), Bus).heard
            = Owed(Chain(c), Sample(c, "resolve:start"))

\* the listeners of container a in the listener sets ls, as the calls an
\* emission of e by a owes them
OwedBy(ls, a, e) ==
    [i \in DOMAIN ls[a][e.event] |->
        [listener |-> ls[a][e.event][i], at |-> a, payload |-> e]]

\* an emission by container c calls exactly the listeners that were in the
\* set of c when it started, once each in subscription order, whatever they
\* do to the set meanwhile; the parent then calls exactly the listeners that
\* are in its own set when the event is handed to it
SnapshotPerContainer(c, e) ==
    /\ CallsAt(emitTo(c, e, Bus).heard, c) = OwedBy(listeners, c, e)
    /\ parent[c] # 0 =>
            CallsAt(emitTo(c, e, Bus).heard, parent[c])
                = OwedBy(invokeAll(c, e, listenersOf(Bus, c, e.event), Bus).listeners,
                         parent[c], e)

\* a listener that is not in the set of c after an emission is not called by
\* c in the next one
GoneStaysGone(c, e) ==
    CallsAt(emitTo(c, e, Later(emitTo(c, e, Bus))).heard, c)
        = OwedBy(emitTo(c, e, Bus).listeners, c, e)

\* off(event, listener) takes the listener out of the set of the container
Unsubscribes ==
    \A c \in 1..nCont, l \in Listeners :
        off(Bus, c, "resolve:start", l).listeners[c]["resolve:start"]
            = Without(listeners[c]["resolve:start"], l)

\* C29 (amended): each container calls the listeners that were in its own set
\* when its emit call started, exactly once each, whatever the listeners do to
\* that set during the emission; a listener subscribed to it meanwhile is not
\* called for this emission, and a listener unsubscribed from it is not called
\* for a later one.
C29_SnapshotPerContainer ==
    /\ \A c \in 1..nCont :
            /\ SnapshotPerContainer(c, Sample(c, "resolve:start"))
            /\ GoneStaysGone(c, Sample(c, "resolve:start"))
    /\ Unsubscribes

\* the root has emitted resolve:start to a listener that removed the one
\* subscribed after it: that one was still called, and is not subscribed any
\* more
C29_Witness ==
    /\ Len(heard) = 2
    /\ heard[1].at = 1 /\ heard[2].at = 1
    /\ ListenerMenu[heard[1].listener].does = "removes"
    /\ heard[2].listener = ListenerMenu[heard[1].listener].arg
    /\ listeners[1]["resolve:start"] = <<heard[1].listener>>

\* ---------------------------------------------------------------------- C30
\* Faulty listeners: the root registers C as Singleton and a child as Scoped;
\* the child creates a session and C is resolved; listeners that return or
\* throw are subscribed to dispose on both; the session is destroyed and the
\* root cleared.
FaultySessions == 1

InitFaulty == InitWith({GraphChain})

NextFaulty ==
    \/ (nCont < EventContainers /\ CreateChild(1, NoChildOptions))
    \/ Register(1, "cC", None, Singleton, Service)
    \/ Register(2, "cC", None, Scoped, Service)
    \/ \E c \in 1..EventContainers, sid \in 0..FaultySessions :
            Resolve(1, c, CtorTok("cC"), Opt(sid))
    \/ (sessionCounter[2] < FaultySessions /\ CreateSession(2, None))
    \/ DestroySession(2, 1)
    \/ Clear(1)
    \/ \E c \in 1..EventContainers, l \in Listeners :
            /\ Subscriptions < MaxSubscriptions
            /\ ListenerMenu[l].does \in {"returns", "throws"}
            /\ On(c, "dispose", l)

SpecFaulty == InitFaulty /\ [][NextFaulty]_vars

\* the listener sets with a listener that returns in the place of every
\* listener that throws
Calm ==
    [c \in Containers |-> [ev \in ListenEvents |->
        [i \in DOMAIN listeners[c][ev] |->
            IF ListenerMenu[listeners[c][ev][i]].does = "throws" THEN 1
            ELSE listeners[c][ev][i]]]]

\* the teardown d ended as the teardown q of the same call with calm
\* listeners did: the same listeners were called and the container is in the
\* same state
SameEnd(d, q) ==
    /\ Len(d.heard) = Len(q.heard)
    /\ d.sessions = q.sessions
    /\ d.sessionInfos = q.sessionInfos
    /\ d.regs = q.regs
    /\ d.heap = q.heap

\* C30: when a listener throws during an emission, the other listeners on
\* the same container and on its ancestors are still invoked, and the
\* emitting operation (destroySession, clear) ends in the same container
\* state as it would with a listener that does not throw.
C30_ListenerIsolation ==
    \A c \in 1..nCont :
        /\ \A sid \in DOMAIN sessions[c] :
                SameEnd(destroySession(c, sid, Teardown),
                        destroySession(c, sid, [Teardown EXCEPT !.listeners = Calm]))
        /\ SameEnd(clear(c, Teardown), clear(c, [Teardown EXCEPT !.listeners = Calm]))

\* ---------------------------------------------------------------------- C31
\* Ids: two tasks whose asynchronous callbacks interleave; each enters
\* runInScope on the root with a new session under a scope name, sessions
\* without a scope name are also created and destroyed explicitly, the root is
\* cleared, and the Scoped class C is resolved in the ambient session.
IdSessions == 2

InitIds == InitWith({GraphChain})

NextIds ==
    \/ Register(1, "cC", None, Scoped, Service)
    \/ \E t \in Tasks : Resolve(t, 1, CtorTok("cC"), NoOptions)
    \/ (sessionCounter[1] < IdSessions /\ CreateSession(1, None))
    \/ \E t \in Tasks, scopeName \in ScopeNames :
            sessionCounter[1] < IdSessions /\ RunInSessionEnter(t, 1, 0, scopeName)
    \/ \E t \in Tasks : RunInSessionReturn(t)
    \/ \E t \in Tasks, outcome \in {"resolves", "rejects"} : RunInSessionSettle(t, outcome)
    \/ \E sid \in 1..IdSessions : DestroySession(1, sid)
    \/ Clear(1)

SpecIds == InitIds /\ [][NextIds]_vars

\* the runInSession calls still running that created their session: task and
\* depth of the frame
Creators == {p \in Tasks \X (1..MaxDepth) : p[2] <= Len(frames[p[1]]) /\ frames[p[1]][p[2]].owned}

\* the session created by the call p
Created(p) == <<frames[p[1]][p[2]].cont, frames[p[1]][p[2]].sessionId>>

\* no two running calls were given the same id for the sessions they created
NoSharedId == \A p, q \in Creators : Created(p) = Created(q) => p = q

\* a session that appears in a step has the next id of the counter, an empty
\* instance cache and its info, and its id is not the one a session created
\* earlier by a call that is still running was given
CreatedFresh ==
    \A c \in 1..nCont : \A sid \in DOMAIN sessions'[c] \ DOMAIN sessions[c] :
        /\ sessions'[c][sid] = <<>>
        /\ sid \in DOMAIN sessionInfos'[c]
        /\ sessionInfos'[c][sid].id = sid
        /\ \A p \in Creators : Created(p) # <<c, sid>>

\* C31: no two sessions created by one container are given the same id, after
\* any sequence of createSession, runInSession, destroySession and clear, and a
\* created session joins the live set with an empty instance cache.
C31_SessionIdsUnique == []NoSharedId /\ [][CreatedFresh]_vars

\* ---------------------------------------------------------------------- C32
\* Modules: the modules of the menu are registered in the root or in a child,
\* one by one or two at a time through the helper, and the containers are
\* cleared.
ModuleContainers == 2

ModuleLists == {<<m>> : m \in Modules} \cup {<<m, n>> : m, n \in Modules}

InitModules == InitWith({GraphChain})

NextModules ==
    \/ (nCont < ModuleContainers /\ CreateChild(1, NoChildOptions))
    \/ \E c \in 1..ModuleContainers, m \in Modules : RegisterModule(c, m)
    \/ \E c \in 1..ModuleContainers, modules \in ModuleLists :
            Len(modules) = 2 /\ RegisterModules(c, modules)
    \/ \E c \in 1..ModuleContainers : Clear(c)

SpecModules == InitModules /\ [][NextModules]_vars

\* the positions of a trace where the configure of module m was entered, where
\* it returned, and where a provider of m was registered
Entered(tr, m) == {i \in DOMAIN tr : tr[i].kind = "configure" /\ tr[i].module = m}
Returned(tr, m) == {i \in DOMAIN tr : tr[i].kind = "configured" /\ tr[i].module = m}
Provided(tr, m) == {i \in DOMAIN tr : tr[i].kind = "register" /\ tr[i].module = m}

\* the call registerModules(c, modules) from the current state, which ended
\* in g, ran the configure of a module at most once, never the configure of
\* a module that container c had registered already, and left every module
\* it was given registered
OncePerCall(c, modules, g) ==
    /\ \A m \in Modules :
            /\ Cardinality(Entered(g.trace, m)) <= 1
            /\ m \in registeredModules[c] => Entered(g.trace, m) = {}
            /\ Entered(g.trace, m) # {} => m \in g.registeredModules[c]
    /\ registeredModules[c] \subseteq g.registeredModules[c]
    /\ \A c2 \in Containers \ {c} : g.registeredModules[c2] = registeredModules[c2]
    /\ ~g.thrown => Range(modules) \subseteq g.registeredModules[c]

\* a module stays registered in a container until clear() of that container
RegisteredUntilClear ==
    \A c \in 1..nCont :
        \/ registeredModules[c] \subseteq registeredModules'[c]
        \/ /\ registeredModules'[c] = {}
           /\ \A n \in Names : byToken'[c][n] = 0

\* registering a module the container has registered already changes nothing
SameAgain(c, m) ==
    LET g == registerModule(c, m, Registry)
    IN /\ m \in registeredModules[c] => g = Registry
       /\ registerModule(c, m, [g EXCEPT !.trace = <<>>, !.thrown = FALSE])
            = [g EXCEPT !.trace = <<>>, !.thrown = FALSE]

\* when a provider of module m is registered at position i, the configure of
\* the import k of m has returned, in this call or in an earlier one
ImportReturned(c, tr, i, k) ==
    \/ k \in registeredModules[c]
    \/ \E j \in Returned(tr, k) : j < i

\* ... the configure of k has been entered and is still running: m is
\* configured in the course of it, k imports m back
ImportRunning(tr, i, k) ==
    /\ \E j \in Entered(tr, k) : j < i
    /\ \A j \in Returned(tr, k) : j > i

\* the imports of every module were configured, in the call with trace tr or
\* before it, when the providers of the module were registered
ImportsReturned(c, tr) ==
    \A m \in Modules : \A i \in Provided(tr, m) :
        \A k \in Range(ModuleMenu[m].imports) : ImportReturned(c, tr, i, k)

\* C32 as stated: for any import graph, cycles included, the imports of a
\* module are configured before the module's own providers are registered.
C32_ImportsConfiguredFirst ==
    \A c \in 1..nCont, modules \in ModuleLists :
        LET g == registerModules(c, modules, Registry)
        IN OncePerCall(c, modules, g) /\ ImportsReturned(c, g.trace)

\* the imports of a module are entered before its providers are registered,
\* and have returned unless the module is configured in the course of the
\* import's own configure
ImportsFirst(c, tr) ==
    \A m \in Modules : \A i \in Provided(tr, m) :
        \A k \in Range(ModuleMenu[m].imports) :
            ImportReturned(c, tr, i, k) \/ ImportRunning(tr, i, k)

\* C32: registerModule / registerModules terminate on every import graph and
\* run the configure of a module at most once per container between two
\* clear() calls; registering a registered module again changes nothing; the
\* configure of every import of a module has been entered before the
\* module's providers are registered, and has returned unless the import is
\* still being configured (an import cycle).
C32_ModulesIdempotent ==
    /\ [](\A c \in 1..nCont :
            /\ \A modules \in ModuleLists :
                    LET g == registerModules(c, modules, Registry)
                    IN OncePerCall(c, modules, g) /\ ImportsFirst(c, g.trace)
            /\ \A m \in Modules : SameAgain(c, m))
    /\ [][RegisteredUntilClear]_vars

\* the root has registered the diamond and the cycle of modules 1..4 after a
\* clear() that followed the registration of other modules: the providers of
\* 2 and 4 were registered once before the clear() and once after it
C32_Witness ==
    /\ registeredModules[1] = {1, 2, 3, 4}
    /\ Len(regs) = 6
    /\ byToken[1]["A"] = 6

\* ---------------------------------------------------------------------- C33
\* Retry: A, whose property q is the token "x", and B, which takes A, are
\* registered Singleton or Scoped in the root and resolved with or without a
\* session before and after C has been registered under the name "x".
RetrySessions == 1

InitRetry == InitWith({GraphRetry})

NextRetry ==
    \/ \E k \in {"cA", "cB"}, lc \in {Singleton, Scoped} : Register(1, k, None, lc, Service)
    \/ Register(1, "cC", "x", Transient, Service)
    \/ (sessionCounter[1] < RetrySessions /\ CreateSession(1, None))
    \/ \E k \in {"cA", "cB"}, sid \in 0..RetrySessions :
            Resolve(1, 1, CtorTok(k), Opt(sid))

SpecRetry == InitRetry /\ [][NextRetry]_vars

\* the registrations whose instantiation failed in the call that ended with
\* res: those a resolve:error event names
FailedRegs(res) ==
    {byToken[res.st.log[e].cont][res.st.log[e].token] :
        e \in {x \in DOMAIN res.st.log : res.st.log[x].event = "resolve:error"}}

\* the call left the slot of registration r and the entry of its token in
\* every session of its container as they were
CacheUntouched(res, r) ==
    /\ res.st.regs[r].singletonInstance = regs[r].singletonInstance
    /\ \A sid \in DOMAIN sessions[regs[r].cont] :
            res.st.sessions[regs[r].cont][sid] = sessions[regs[r].cont][sid]
                \/ ~sessionHas(res.st.sessions[regs[r].cont][sid], regs[r].token)

\* a failed attempt leaves the slot, or the session's entry, of every
\* registration whose instantiation failed empty
FailureLeavesEmpty(res) ==
    Failed(res) =>
        \A r \in FailedRegs(res) :
            /\ CacheUntouched(res, r)
            /\ regs[r].lifecycle = Singleton => res.st.regs[r].singletonInstance = 0

\* the instances of registration r that an attempt constructed and then
\* dropped because it failed: no slot and no session holds them
Dropped(r) == {i \in DOMAIN heap : heap[i].reg = r} \ HeldBy(regs[r].cont)

\* a call that succeeds on a registration with an empty slot (an empty entry
\* in the session sid) constructs a new instance and caches it
RetryCaches(res, r, sid) ==
    ~Failed(res) =>
        /\ (regs[r].lifecycle = Singleton /\ regs[r].singletonInstance = 0) =>
                /\ res.val.id > Len(heap)
                /\ res.st.regs[r].singletonInstance = res.val.id
        /\ (regs[r].lifecycle = Scoped /\ sid \in DOMAIN sessions[regs[r].cont]
                /\ ~sessionHas(sessions[regs[r].cont][sid], regs[r].token)) =>
                /\ res.val.id > Len(heap)
                /\ sessionGet(res.st.sessions[regs[r].cont][sid], regs[r].token) = res.val

\* once the token "x" is registered and the session exists, the attempt on A
\* succeeds, whether an earlier attempt failed or not
CauseRemoved(res, r, sid) ==
    (/\ regs[r].target = "cA"
     /\ byToken[1]["x"] # 0
     /\ regs[r].lifecycle = Scoped => sid \in DOMAIN sessions[1])
        => ~Failed(res)

RECURSIVE Above(_)
Above(c) == IF parent[c] = 0 THEN {} ELSE {parent[c]} \cup Above(parent[c])

\* the containers a lookup of the token that starts at c may go through: c,
\* and those above it as far as the filters let the token pass
RECURSIVE Permitted(_, _)
Permitted(c, token) ==
    IF parent[c] # 0 /\ canInheritToken(c, token)
    THEN {c} \cup Permitted(parent[c], token)
    ELSE {c}

\* the lookup of the token failed: no registration was entered
LookupFailed(res) == Failed(res) /\ res.st.log = <<>>

\* C34: resolve fails with NotAvailableInContainer only when the token is
\* registered in a container above but a filter on the way blocks it, and with
\* NotFound only when no container the fallback may reach registers it; a
\* token registered nowhere never gives NotAvailableInContainer.
C34_LookupFailuresDistinct ==
    \A c \in 1..nCont, token \in RequestMenu :
        LET res == resolve(1, c, token, NoOptions, Snapshot)
        IN LookupFailed(res) =>
            /\ res.err.kind \in {"NotFound", "NotAvailableInContainer"}
            /\ res.err.kind = "NotAvailableInContainer" =>
                    /\ \E a \in Above(c) : findRegistration(a, token) # 0
                    /\ \E a \in Above(c) \ Permitted(c, token) : TRUE
            /\ res.err.kind = "NotFound" =>
                    \A a \in Permitted(c, token) : findRegistration(a, token) = 0

\* ---------------------------------------------------------------------- C35
\* the call passes a scope option and the session it goes to was created
\* under another scope name
ScopeDiffers(c, sessionId, options) ==
    /\ options.scope # None
    /\ infoScope(c, sessionId) # None
    /\ infoScope(c, sessionId) # options.scope

\* C35: a resolve of a Scoped registration against the live session S fails
\* with ScopeMismatch exactly when the call passes a scope option and S was
\* created under a different scope name; a call that passes no scope option
\* never fails with ScopeMismatch, whatever session is ambient.
C35_ScopeMismatchOnlyOnRequest ==
    \A sid \in 0..MaxSessions, scope \in {None} \cup ScopeNames :
        LET options == [sessionId |-> sid, scope |-> scope]
            res == resolve(1, 1, CtorTok("cC"), options, Snapshot)
        IN (topReg(res) # 0 /\ sessionIdFor(1, 1, options) \in DOMAIN sessions[1]) =>
                ((res.err.kind = "ScopeMismatch")
                    <=> ScopeDiffers(1, sessionIdFor(1, 1, options), options))

\* ---------------------------------------------------------------------- C36
\* the resolve:success events of Scoped registrations in the log of a call
ScopedResults(res) ==
    {e \in DOMAIN res.st.log :
        res.st.log[e].event = "resolve:success" /\ res.st.log[e].lifecycle = Scoped}

\* every Scoped registration the call res resolved was read from the cache of
\* session S when it had an entry there, and has its entry there afterwards;
\* every instance a successful call constructed for a Scoped registration is
\* that entry; the entries S had are kept
UsesCacheOf(S, res) ==
    /\ \A e \in ScopedResults(res) :
            /\ res.st.log[e].cached <=> sessionHas(sessions[1][S], res.st.log[e].token)
            /\ sessionHas(res.st.sessions[1][S], res.st.log[e].token)
    /\ \A i \in (Len(heap) + 1)..Len(res.st.heap) :
            (~Failed(res) /\ regs[res.st.heap[i].reg].lifecycle = Scoped) =>
                /\ sessionHas(res.st.sessions[1][S], regs[res.st.heap[i].reg].token)
                /\ sessionGet(res.st.sessions[1][S], regs[res.st.heap[i].reg].token) = Inst(i)
    /\ \A e \in DOMAIN sessions[1][S] : res.st.sessions[1][S][e] = sessions[1][S][e]

\* the call res wrote to no session but S
OnlyWrites(S, res) ==
    \A sid \in DOMAIN sessions[1] \ {S} : res.st.sessions[1][sid] = sessions[1][sid]

StillOwn(p) ==
    /\ p \in Creators
    /\ Created(p)[2] \in DOMAIN sessionInfos[Created(p)[1]]
    /\ sessionInfos[Created(p)[1]][Created(p)[2]].scope = frames[p[1]][p[2]].scope
    /\ \A q \in Creators \ {p} :
            Created(q) = Created(p) => frames[q[1]][q[2]].scope # frames[p[1]][p[2]].scope

\* when the innermost runInSession call of a task ends, the only session that
\* may go is the one with the id of that call, and the session another
\* running call created stays live
SettleSparesOthers ==
    \A t \in Tasks :
        Len(frames'[t]) < Len(frames[t]) =>
            /\ \A c \in 1..nCont : \A sid \in DOMAIN sessions[c] :
                    <<c, sid>> # <<top(t).cont, top(t).sessionId>> =>
                        sid \in DOMAIN sessions'[c]
            /\ \A p \in Creators \ {<<t, Len(frames[t])>>} :
                    StillOwn(p) => Created(p)[2] \in DOMAIN sessions'[Created(p)[1]]

\* C37: the destroy performed when a runInSession call settles removes only
\* the session that call created; under every interleaving with createSession,
\* destroySession and clear, a session that is live because another, still
\* running runInSession call created it is not destroyed by it.
C37_SettleDestroysOwnOnly == [][SettleSparesOthers]_vars

\* ---------------------------------------------------------------------- C38
\* Owners: the root registers C as Scoped; the root and an unfiltered child
\* create and destroy sessions of their own, enter them with runInSession, and
\* C is resolved through either with a session id or with the ambient session.
OwnerContainers == 2
OwnerSessions == 2

InitOwners == InitWith({GraphChain})

NextOwners ==
    \/ (nCont < OwnerContainers /\ CreateChild(1, NoChildOptions))
    \/ Register(1, "cC", None, Scoped, Service)
    \/ \E c \in 1..OwnerContainers :
            sessionCounter[c] < OwnerSessions /\ CreateSession(c, None)
    \/ \E c \in 1..OwnerContainers, sid \in 1..OwnerSessions : DestroySession(c, sid)
    \/ \E c \in 1..OwnerContainers, sid \in 1..OwnerSessions :
            frames[1] = <<>> /\ RunInSessionEnter(1, c, sid, None)
    \/ RunInSessionReturn(1)
    \/ \E c \in 1..OwnerContainers, sid \in 0..OwnerSessions :
            Resolve(1, c, CtorTok("cC"), Opt(sid))

SpecOwners == InitOwners /\ [][NextOwners]_vars

\* the container whose registration a lookup of the token from c ends at
\* (0: none)
RECURSIVE Registrant(_, _)
Registrant(c, token) ==
    IF findRegistration(c, token) # 0 THEN c
    ELSE IF parent[c] # 0 /\ canInheritToken(c, token) THEN Registrant(parent[c], token)
    ELSE 0

\* C38: a Scoped resolution that reaches container P by fallback from a child,
\* with the id of a session the child created, reads and writes no session
\* cache of P and fails with SessionNotFound.
C38_SessionsBelongToCreator ==
    \A c \in 2..nCont : \A sid \in DOMAIN sessions[c] :
        LET res == resolve(1, c, CtorTok("cC"), Opt(sid), Snapshot)
            P == Registrant(c, CtorTok("cC"))
        IN (P \notin {0, c} /\ regs[findRegistration(P, CtorTok("cC"))].lifecycle = Scoped) =>
                /\ res.err.kind = "SessionNotFound"
                /\ res.st.sessions = sessions
                /\ res.st.heap = heap

\* ---------------------------------------------------------------- C39
\* Classes B and C are registered as Singletons under their own names and
\* under the name "x", in any order, and resolved by name and by class.
AliasNames == {"B", "C", "x"}

InitAlias == InitWith({GraphChain})

NextAlias ==
    \/ \E k \in {"cB", "cC"}, name \in {None, "x"} : Register(1, k, name, Singleton, Service)
    \/ \E n \in AliasNames : Resolve(1, 1, StrTok(n), NoOptions)
    \/ \E k \in {"cB", "cC"} : Resolve(1, 1, CtorTok(k), NoOptions)
    \/ Clear(1)

SpecAlias == InitAlias /\ [][NextAlias]_vars

\* the names under which class k is registered as a Singleton in container c
SingletonNames(c, k) ==
    {n \in AliasNames :
        /\ byToken[c][n] # 0
        /\ regs[byToken[c][n]].target = k
        /\ regs[byToken[c][n]].lifecycle = Singleton}

\* resolve(n) followed by resolve(k) answer the same instance
SameInstance(byName, byClass) ==
    ~Failed(byName) => (~Failed(byClass) /\ byClass.val = byName.val)

\* C39: for every class registered as a Singleton and every name it is
\* registered under, the lookup by that name and the lookup by the class
\* reach the same Registration, and resolve(name) and resolve(class) return
\* the identical instance.
C39_AliasAndClassAgree ==
    \A k \in {"cB", "cC"} : \A n \in SingletonNames(1, k) :
        /\ findRegistration(1, StrTok(n)) = findRegistration(1, CtorTok(k))
        /\ SameInstance(resolve(1, 1, StrTok(n), NoOptions, Snapshot),
                        resolve(1, 1, CtorTok(k), NoOptions,
                                resolve(1, 1, StrTok(n), NoOptions, Snapshot).st))

\* ---------------------------------------------------------------- C40
\* Destroy: B and C, with dispose hooks of every kind, are registered Scoped
\* in the root; a task enters runInScope with a new session under a scope
\* name, sessions without a scope name are created explicitly, sessions are
\* destroyed explicitly (also from inside the running callback) or by clear,
\* the promises of the hooks settle one by one, and B and C are resolved with
\* a session id or in the ambient session.
DestroySessions == 1

InitDestroy == InitWith(HookGraphs)

NextDestroy ==
    \/ \E k \in {"cB", "cC"} : InOrder(1, k) /\ Register(1, k, None, Scoped, Service)
    \/ \E k \in {"cB", "cC"}, sid \in 0..DestroySessions : Resolve(1, 1, CtorTok(k), Opt(sid))
    \/ (sessionCounter[1] < DestroySessions /\ CreateSession(1, None))
    \/ \E scopeName \in ScopeNames :
            sessionCounter[1] < DestroySessions /\ RunInSessionEnter(1, 1, 0, scopeName)
    \/ RunInSessionReturn(1)
    \/ \E sid \in 1..DestroySessions : DestroySession(1, sid)
    \/ Clear(1)
    \/ \E i \in 1..MaxHeap : SettleDisposal(i)

SpecDestroy == InitDestroy /\ [][NextDestroy]_vars

\* the classes registered Scoped in container c
ScopedClasses(c) == {k \in Classes : byCtor[c][k] # 0 /\ regs[byCtor[c][k]].lifecycle = Scoped}

\* the container state a teardown ended in, as the next resolve finds it
Left(d) == [regs |-> d.regs, sessions |-> d.sessions, heap |-> d.heap, log |-> <<>>]

\* resolve(k, options) of task t on container c in state st fails with
\* SessionNotFound and constructs and caches nothing
Turned(t, c, k, options, st) ==
    /\ resolve(t, c, CtorTok(k), options, st).err.kind = "SessionNotFound"
    /\ resolve(t, c, CtorTok(k), options, st).st.heap = st.heap
    /\ resolve(t, c, CtorTok(k), options, st).st.sessions = st.sessions

\* destroySession(sid) that returned (with or without a promise) left neither
\* the cache nor the info of sid, and the Scoped resolves that name sid or
\* have it as ambient session are refused
GoneOnReturn(t, c, sid, d) ==
    ~d.thrown =>
        /\ sid \notin DOMAIN d.sessions[c]
        /\ sid \notin DOMAIN d.sessionInfos[c]
        /\ \A k \in ScopedClasses(c) :
                /\ Turned(t, c, k, Opt(sid), Left(d))
                /\ getStore(t, c).sessionId = sid => Turned(t, c, k, NoOptions, Left(d))

DestroyedAtOnce ==
    \A c \in 1..nCont : \A sid \in DOMAIN sessions[c] :
        GoneOnReturn(1, c, sid, destroySession(c, sid, Teardown))

\* the innermost runInSession call of task t created its session, and that
\* session has been destroyed: no live session has its id, or the live
\* session with its id does not carry the scope name the call gave it
Outlived(t) ==
    /\ frames[t] # <<>>
    /\ top(t).owned
    /\ \/ top(t).sessionId \notin DOMAIN sessionInfos[top(t).cont]
       \/ sessionInfos[top(t).cont][top(t).sessionId].scope # top(t).scope

\* inside a callback whose session has been destroyed the Scoped resolves in
\* the ambient session are refused, and getSessionInfo of its id is undefined
DeadToCallback ==
    \A t \in Tasks :
        Outlived(t) =>
            /\ top(t).sessionId \notin DOMAIN sessionInfos[top(t).cont]
            /\ \A k \in ScopedClasses(top(t).cont) :
                    Turned(t, top(t).cont, k, NoOptions, Snapshot)

\* C40: as soon as destroySession(S) has returned, also with a promise whose
\* disposals are pending, S is not live: getSessionInfo(S) is undefined and
\* every Scoped resolve that names S or has S as ambient session, also a later
\* one inside the still running runInSession callback for S, fails with
\* SessionNotFound and creates no instance.
C40_DestroyTakesEffectAtOnce == DestroyedAtOnce /\ DeadToCallback

====
